---------------------------- MODULE Spec2Model ----------------------------
(***************************************************************************)
(* c99extend concurrency runtime: the worker pool (thread_pool.c), the     *)
(* semaphore-based FIFO queue (queue.c), the counting semaphore            *)
(* (adv_semaphore.c, POSIX branch) and the thread handle (adv_thread.c,    *)
(* POSIX branch).  Each component has its own specification over its own   *)
(* variables; the other components' variables stay at their initial value. *)
(***************************************************************************)
EXTENDS Integers, Sequences, FiniteSets, TLC

\* ------------------------------------------------------------- bounds
NumWorkers == 2      \* num_threads given to thread_pool_create
NumClients == 2      \* threads calling thread_pool_submit
MaxTasks   == 3      \* thread_pool_submit calls made in one behaviour
NumProducers == 2    \* threads calling queue_push
NumConsumers == 2    \* threads calling queue_pop
MaxPushes  == 2      \* queue_push calls, and queue_pop calls, in one behaviour
NumSemThreads == 2   \* threads calling Semaphore_wait / Semaphore_post
MaxSemOps  == 5      \* Semaphore_wait and Semaphore_post calls in one behaviour
MaxSemInitial == 2   \* largest initial_count given to Semaphore_init
MaxThreadCalls == 4  \* calls made on one Thread handle in one behaviour

NULL == 0

Workers == 1..NumWorkers
Clients == 1..NumClients
Tasks   == 1..MaxTasks
Producers == 1..NumProducers
Consumers == 1..NumConsumers
QNodes  == 1..MaxPushes
SemThreads == 1..NumSemThreads

\* Thread identities used as owner of the pool's pthread mutex (0: unlocked).
WorkerTid(w) == w
ClientTid(c) == NumWorkers + c
DestroyTid   == NumWorkers + NumClients + 1

VARIABLES
    \* ---- struct ThreadPool (thread_pool.c:22-39) and its threads
    shutdown_flag,   \* pool->shutdown_flag
    task_head,       \* pool->task_head (NULL or a task node)
    task_tail,       \* pool->task_tail
    task_next,       \* node->next for every TaskNode
    node_state,      \* per TaskNode: "none", "queued", "owned", "freed"
    pool_mutex,      \* owner of pool->mutex, 0 when unlocked
    cond_waiters,    \* workers suspended in pthread_cond_wait(&pool->cond)
    w_started,       \* pool->workers[i].started
    w_joined,        \* pool->workers[i].joined
    w_alive,         \* pool->workers[i].is_alive
    wpc,             \* position of each worker thread
    wtask,           \* the worker's local `task`
    cpc,             \* position of each submitting thread
    ctask,           \* the task carried by the submit call in progress
    ncalls,          \* number of thread_pool_submit calls begun
    submit_ret,      \* per call: "none", "true", "false"
    dpc,             \* position of the thread calling thread_pool_destroy
    d_i,             \* loop index i of the join loop
    \* ---- observations of the pool (history, never read by the program)
    executed,        \* per task: how many times task->fn has run to completion
    exec_by,         \* per task: the workers that ran it
    free_count,      \* per task node: how many times it was passed to free()
    after_begin,     \* per call: thread_pool_destroy had been entered at the call
    after_flag,      \* per call: shutdown_flag was already true at the call
    enq_order,       \* the task nodes in the order they were appended to the list
    deq_order,       \* the task nodes in the order workers took them off it
    wsub,            \* per worker: the task carried by the submit call its task makes
    sub_by,          \* per task: the worker whose task submitted it (history)
    \* ---- Queue (queue.h:26-48), its two semaphores and its threads
    q_head,          \* q->head (NULL or a node)
    q_tail,          \* q->tail
    q_size,          \* q->size
    q_next,          \* node->next for every QueueNode
    q_data,          \* node->data for every QueueNode
    q_live,          \* the nodes allocated and not yet freed
    q_mutex,         \* count of the binary semaphore q->mutex
    q_items,         \* count of the counting semaphore q->items
    ppc,             \* position of each producer thread
    pnode,           \* the producer's local `node`
    npush,           \* queue_push calls made so far
    kpc,             \* position of each consumer thread
    npop,            \* queue_pop calls made so far
    q_crashed,       \* a NULL node was dereferenced in queue_pop
    \* ---- observations of the queue (history, never read by the program)
    push_order,      \* data of the pushes, in the order they took effect
    pop_order,       \* data returned by the pops, in the order they took effect
    q_dropped,       \* pushes that returned without enqueuing (malloc failed)
    push_ret,        \* what the last such queue_push call gave back to its
                     \* caller ("none" as long as there was no such call)
    k_since          \* per consumer inside a pop issued on an empty queue:
                     \* "none" until a push takes effect, then "pushed"; "-"
                     \* for any other consumer
VARIABLES
    \* ---- one thread calling queue_size and queue_is_empty (queue.c:143-159)
    rpc,             \* "idle", "lock" at mutex_lock, "locked" holding the
                     \* mutex, "read" holding the mutex and the value read
    r_op,            \* the call in progress: "none", "size", "is_empty"
    r_size,          \* the local s of queue_size (0 when it holds nothing)
    r_empty          \* the local empty of queue_is_empty (FALSE likewise)
VARIABLES
    \* ---- time, for tasks that sleep (thread_pool_test.c:17-22)
    now,             \* time units gone by during which some task was asleep
    t_slept          \* per task: the time units it has slept so far
VARIABLES
    \* ---- the queue_create call that makes the queue (queue.c:37-65)
    qc_pc,           \* "idle" before the call, "mutex" at mutex_init, "items"
                     \* at the item semaphore, "done" once it has returned
    qc_ret,          \* "none", or what queue_create returned: "NULL", "queue"
    qc_failed        \* the semaphores whose Semaphore_init returned false
VARIABLES
    \* ---- one Semaphore (adv_semaphore.h:35-37) and the threads using it
    s_count,         \* the value of s->sem
    spc,             \* per thread: "idle", or "wait" inside Semaphore_wait
    s_ops,           \* Semaphore_wait and Semaphore_post calls made so far
    \* ---- observations of the semaphore (history)
    s_posted,        \* per thread: Semaphore_post calls it has completed
    s_got,           \* per thread: Semaphore_wait calls that have returned
    s_initial        \* the initial_count the semaphore was initialised with
VARIABLES
    \* ---- one Thread handle (adv_thread.h:30-46), its native thread and
    \* ---- the thread that owns the handle
    t_started,       \* t->started
    t_joined,        \* t->joined
    t_killed,        \* t->killed
    t_is_alive,      \* t->is_alive
    t_name,          \* t->name
    t_native,        \* the native thread: "none", "created" (pthread_create
                     \* succeeded), "running" (inside Thread_run), "returned"
                     \* (the closure returned), "terminated", "reaped"
    opc,             \* the owner: "idle", "join" inside pthread_join, or
                     \* "create" between Thread_start and the test of
                     \* t->started in thread_create
    t_calls,         \* calls the owner has made on the handle
    proc_dead,       \* the process was terminated by SIGKILL
    \* ---- the ThreadTrampoline block of thread_create
    td_state,        \* "none", "allocated" or "freed"
    td_frees,        \* how many times the block was passed to free()
    td_freed_by,     \* "none", "thread" or "create"
    td_uaf,          \* the trampoline read the block after it was freed
    \* ---- observations of the handle (history)
    t_runs,          \* how many times the closure has run to completion
    t_native_joins,  \* pthread_join calls made
    t_join_rets,     \* Thread_join calls that went through pthread_join
                     \* and returned
    t_join_early,    \* Thread_join was called before the thread terminated
    t_last,          \* the owner's last call: its name, what it returned
                     \* (thread_create / thread_join: "0" or "-1"; "void" for a
                     \* void function; "blocked" while inside pthread_join)
                     \* and whether it reached the native thread layer
    \* ---- thread_pool_create (thread_pool.c:44-78) and what destroy meets
    cr_pc,           \* the creating thread: "idle", "loop", "done" (a pool
                     \* was returned), "null" (NULL was returned)
    cr_i,            \* loop index i of the creation loop
    num_threads,     \* pool->num_threads
    cr_result,       \* per worker: how its thread_create ended: "-", "ok",
                     \* "pthread" (pthread_create failed), "nomem"
    join_unset       \* pthread_join was called on a thread_id never set

poolVars == <<shutdown_flag, task_head, task_tail, task_next, node_state,
              pool_mutex, cond_waiters, w_started, w_joined, w_alive, wpc,
              wtask, cpc, ctask, ncalls, submit_ret, dpc, d_i, executed,
              exec_by, free_count, after_begin, after_flag>>

queueVars == <<q_head, q_tail, q_size, q_next, q_data, q_live, q_mutex,
               q_items, ppc, pnode, npush, kpc, npop, q_crashed,
               push_order, pop_order, q_dropped, k_since, push_ret>>

semVars == <<s_count, spc, s_ops, s_posted, s_got>>

threadVars == <<t_started, t_joined, t_killed, t_is_alive, t_name, t_native,
                opc, t_calls, proc_dead, t_runs, t_native_joins, t_join_rets,
                t_join_early, t_last>>

createVars == <<cr_pc, cr_i, num_threads, cr_result, join_unset>>

qcreateVars == <<qc_pc, qc_ret, qc_failed>>

readVars == <<rpc, r_op, r_size, r_empty>>

orderVars == <<enq_order, deq_order>>

timeVars == <<now, t_slept>>

semInitVars == <<s_initial>>

reentVars == <<wsub, sub_by>>

trampVars == <<td_state, td_frees, td_freed_by, td_uaf>>

vars == <<poolVars, queueVars, semVars, threadVars, createVars, qcreateVars,
          readVars, orderVars, timeVars, semInitVars, reentVars, trampVars>>

\* What each component's actions leave alone.
notPool   == <<trampVars, reentVars, semInitVars, timeVars, readVars, queueVars, semVars, threadVars, createVars, qcreateVars>>
notQueue  == <<trampVars, reentVars, semInitVars, timeVars, orderVars, readVars, poolVars, semVars, threadVars, createVars, qcreateVars>>
notSem    == <<trampVars, reentVars, semInitVars, timeVars, orderVars, readVars, poolVars, queueVars, threadVars, createVars, qcreateVars>>
notThread == <<trampVars, reentVars, semInitVars, timeVars, orderVars, readVars, poolVars, queueVars, semVars, createVars, qcreateVars>>
notCreate == <<trampVars, reentVars, queueVars, semVars, threadVars, qcreateVars, readVars,
               orderVars, timeVars, semInitVars>>
notQueueCreate == <<trampVars, reentVars, poolVars, semVars, threadVars, createVars, readVars,
                    orderVars, timeVars, semInitVars>>
notRead == <<trampVars, reentVars, poolVars, semVars, threadVars, createVars, qcreateVars,
             orderVars, timeVars, semInitVars>>
notTime == <<trampVars, reentVars, poolVars, queueVars, semVars, threadVars, createVars,
             qcreateVars, readVars, orderVars, semInitVars>>

\* What the actions that allocate, read or free the trampoline block leave
\* alone.
notThreadBlock ==
    <<reentVars, semInitVars, timeVars, orderVars, readVars, poolVars,
      queueVars, semVars, createVars, qcreateVars>>

\* ---------------------------------------------------------------- pool

\* thread_pool_create(NumWorkers) with every thread_create succeeding:
\* the flag is false, the list empty, the mutex unlocked, and every handle
\* has been through Thread_init and Thread_start (started, native thread
\* created and about to enter _thread_bootstrap).
PoolInit ==
    /\ shutdown_flag = FALSE
    /\ task_head = NULL
    /\ task_tail = NULL
    /\ task_next = [t \in Tasks |-> NULL]
    /\ node_state = [t \in Tasks |-> "none"]
    /\ pool_mutex = 0
    /\ cond_waiters = {}
    /\ w_started = [w \in Workers |-> TRUE]
    /\ w_joined = [w \in Workers |-> FALSE]
    /\ w_alive = [w \in Workers |-> FALSE]
    /\ wpc = [w \in Workers |-> "boot"]
    /\ wtask = [w \in Workers |-> NULL]
    /\ cpc = [c \in Clients |-> "idle"]
    /\ ctask = [c \in Clients |-> NULL]
    /\ ncalls = 0
    /\ submit_ret = [t \in Tasks |-> "none"]
    /\ dpc = "idle"
    /\ d_i = 0
    /\ executed = [t \in Tasks |-> 0]
    /\ exec_by = [t \in Tasks |-> {}]
    /\ free_count = [t \in Tasks |-> 0]
    /\ after_begin = [t \in Tasks |-> FALSE]
    /\ after_flag = [t \in Tasks |-> FALSE]
    /\ enq_order = <<>>
    /\ deq_order = <<>>
    /\ now = 0
    /\ t_slept = [t \in Tasks |-> 0]
    /\ wsub = [w \in Workers |-> NULL]
    /\ sub_by = [t \in Tasks |-> NULL]

\* The pool object is released by the last statement of thread_pool_destroy.
PoolFreed == dpc = "done"

\* pthread_cond_signal: if any worker is suspended on the condition, one of
\* them (w) is released and goes on to re-acquire the mutex.
Signalled(w) ==
    IF cond_waiters = {} THEN w = NULL ELSE w \in cond_waiters

WakeOne(w) ==
    IF w = NULL
    THEN UNCHANGED <<cond_waiters, wpc>>
    ELSE /\ cond_waiters' = cond_waiters \ {w}
         /\ wpc' = [wpc EXCEPT ![w] = "lock"]


\* ---- thread_pool_submit

\* The call and its pthread_mutex_lock.  The caller passes a pool that has
\* not been freed and a non-NULL fn, so the test on line 81 passes; the call
\* then blocks until the mutex is free.  The call is number ncalls + 1 and
\* carries the task of that number.
SubmitLock(c) ==
    /\ cpc[c] = "idle"
    /\ ~PoolFreed
    /\ ncalls < MaxTasks
    /\ pool_mutex = 0
    /\ pool_mutex' = ClientTid(c)
    /\ ncalls' = ncalls + 1
    /\ ctask' = [ctask EXCEPT ![c] = ncalls + 1]
    /\ cpc' = [cpc EXCEPT ![c] = "locked"]
    /\ after_begin' = [after_begin EXCEPT ![ncalls + 1] = (dpc # "idle")]
    /\ after_flag' = [after_flag EXCEPT ![ncalls + 1] = shutdown_flag]
    /\ UNCHANGED orderVars
    /\ UNCHANGED notPool
    /\ UNCHANGED <<shutdown_flag, task_head, task_tail, task_next, node_state,
                   cond_waiters, w_started, w_joined, w_alive, wpc, wtask,
                   submit_ret, dpc, d_i, executed, exec_by, free_count>>

\* Line 81: a call with a NULL pool or a NULL fn returns false before it
\* touches the pool or its mutex.  The call is number ncalls + 1.
SubmitNullArgument(c) ==
    /\ cpc[c] = "idle"
    /\ ncalls < MaxTasks
    /\ ncalls' = ncalls + 1
    /\ submit_ret' = [submit_ret EXCEPT ![ncalls + 1] = "false"]
    /\ after_begin' = [after_begin EXCEPT ![ncalls + 1] = (dpc # "idle")]
    /\ after_flag' = [after_flag EXCEPT ![ncalls + 1] = shutdown_flag]
    /\ UNCHANGED orderVars
    /\ UNCHANGED notPool
    /\ UNCHANGED <<shutdown_flag, task_head, task_tail, task_next, node_state,
                   pool_mutex, cond_waiters, w_started, w_joined, w_alive,
                   wpc, wtask, cpc, ctask, dpc, d_i, executed, exec_by,
                   free_count>>

\* Variant of Enqueue: the node is put in front of the list.
Enqueue_AtHead(t) ==
    /\ enq_order' = Append(enq_order, t)
    /\ IF task_head # NULL
       THEN /\ task_next' = [task_next EXCEPT ![t] = task_head]
            /\ task_head' = t
            /\ UNCHANGED task_tail
       ELSE /\ task_next' = [task_next EXCEPT ![t] = NULL]
            /\ task_head' = t
            /\ task_tail' = t

\* Lines 112-119: append node t at the tail of the task list.
Enqueue(t) ==
    /\ enq_order' = Append(enq_order, t)
    /\ IF task_tail # NULL
       THEN /\ task_next' = [task_next EXCEPT ![task_tail] = t, ![t] = NULL]
            /\ task_tail' = t
            /\ UNCHANGED task_head
       ELSE /\ task_next' = [task_next EXCEPT ![t] = NULL]
            /\ task_head' = t
            /\ task_tail' = t

\* Variant of SubmitRejected: the node is appended before the flag is
\* tested, so a rejected task still ends up in the list.
SubmitRejected_Enqueues(c) ==
    /\ cpc[c] = "locked"
    /\ shutdown_flag
    /\ Enqueue(ctask[c])
    /\ node_state' = [node_state EXCEPT ![ctask[c]] = "queued"]
    /\ pool_mutex' = 0
    /\ submit_ret' = [submit_ret EXCEPT ![ctask[c]] = "false"]
    /\ cpc' = [cpc EXCEPT ![c] = "idle"]
    /\ ctask' = [ctask EXCEPT ![c] = NULL]
    /\ UNCHANGED deq_order
    /\ UNCHANGED notPool
    /\ UNCHANGED <<shutdown_flag, cond_waiters, w_started, w_joined, w_alive,
                   wpc, wtask, ncalls, dpc, d_i, executed, exec_by,
                   free_count, after_begin, after_flag>>

\* Lines 90-97: the shutdown flag is set: unlock and return false.
SubmitRejected(c) ==
    /\ cpc[c] = "locked"
    /\ shutdown_flag
    /\ pool_mutex' = 0
    /\ submit_ret' = [submit_ret EXCEPT ![ctask[c]] = "false"]
    /\ cpc' = [cpc EXCEPT ![c] = "idle"]
    /\ ctask' = [ctask EXCEPT ![c] = NULL]
    /\ UNCHANGED orderVars
    /\ UNCHANGED notPool
    /\ UNCHANGED <<shutdown_flag, task_head, task_tail, task_next, node_state,
                   cond_waiters, w_started, w_joined, w_alive, wpc, wtask,
                   ncalls, dpc, d_i, executed, exec_by, free_count,
                   after_begin, after_flag>>

\* Variant of SubmitNoMemory: the return on a failed malloc leaves the
\* mutex locked.
SubmitNoMemory_KeepsLock(c) ==
    /\ cpc[c] = "locked"
    /\ ~shutdown_flag
    /\ submit_ret' = [submit_ret EXCEPT ![ctask[c]] = "false"]
    /\ cpc' = [cpc EXCEPT ![c] = "idle"]
    /\ ctask' = [ctask EXCEPT ![c] = NULL]
    /\ UNCHANGED orderVars
    /\ UNCHANGED notPool
    /\ UNCHANGED <<shutdown_flag, task_head, task_tail, task_next, node_state,
                   cond_waiters, w_started, w_joined, w_alive, wpc, wtask,
                   ncalls, dpc, d_i, executed, exec_by, free_count,
                   after_begin, after_flag, pool_mutex>>

\* Lines 99-107: malloc of the node fails: unlock and return false.
SubmitNoMemory(c) ==
    /\ cpc[c] = "locked"
    /\ ~shutdown_flag
    /\ pool_mutex' = 0
    /\ submit_ret' = [submit_ret EXCEPT ![ctask[c]] = "false"]
    /\ cpc' = [cpc EXCEPT ![c] = "idle"]
    /\ ctask' = [ctask EXCEPT ![c] = NULL]
    /\ UNCHANGED orderVars
    /\ UNCHANGED notPool
    /\ UNCHANGED <<shutdown_flag, task_head, task_tail, task_next, node_state,
                   cond_waiters, w_started, w_joined, w_alive, wpc, wtask,
                   ncalls, dpc, d_i, executed, exec_by, free_count,
                   after_begin, after_flag>>

\* Variant of SubmitAccepted: no worker is signalled.
SubmitAccepted_NoSignal(c) ==
    /\ cpc[c] = "locked"
    /\ ~shutdown_flag
    /\ Enqueue(ctask[c])
    /\ node_state' = [node_state EXCEPT ![ctask[c]] = "queued"]
    /\ pool_mutex' = 0
    /\ submit_ret' = [submit_ret EXCEPT ![ctask[c]] = "true"]
    /\ cpc' = [cpc EXCEPT ![c] = "idle"]
    /\ ctask' = [ctask EXCEPT ![c] = NULL]
    /\ UNCHANGED deq_order
    /\ UNCHANGED notPool
    /\ UNCHANGED <<shutdown_flag, cond_waiters, wpc, w_started, w_joined,
                   w_alive, wtask, ncalls, dpc, d_i, executed, exec_by,
                   free_count, after_begin, after_flag>>

\* Variant of SubmitAccepted: the shutdown flag is not tested.
SubmitAccepted_NoFlagTest(c) ==
    /\ cpc[c] = "locked"
    /\ Enqueue(ctask[c])
    /\ node_state' = [node_state EXCEPT ![ctask[c]] = "queued"]
    /\ \E w \in Workers \cup {NULL} : Signalled(w) /\ WakeOne(w)
    /\ pool_mutex' = 0
    /\ submit_ret' = [submit_ret EXCEPT ![ctask[c]] = "true"]
    /\ cpc' = [cpc EXCEPT ![c] = "idle"]
    /\ ctask' = [ctask EXCEPT ![c] = NULL]
    /\ UNCHANGED deq_order
    /\ UNCHANGED notPool
    /\ UNCHANGED <<shutdown_flag, w_started, w_joined, w_alive, wtask,
                   ncalls, dpc, d_i, executed, exec_by, free_count,
                   after_begin, after_flag>>

\* Lines 98-130: the node is allocated and filled, appended to the list, one
\* waiting worker is signalled, the mutex is released and true is returned.
SubmitAccepted(c) ==
    /\ cpc[c] = "locked"
    /\ ~shutdown_flag
    /\ Enqueue(ctask[c])
    /\ node_state' = [node_state EXCEPT ![ctask[c]] = "queued"]
    /\ \E w \in Workers \cup {NULL} : Signalled(w) /\ WakeOne(w)
    /\ pool_mutex' = 0
    /\ submit_ret' = [submit_ret EXCEPT ![ctask[c]] = "true"]
    /\ cpc' = [cpc EXCEPT ![c] = "idle"]
    /\ ctask' = [ctask EXCEPT ![c] = NULL]
    /\ UNCHANGED deq_order
    /\ UNCHANGED notPool
    /\ UNCHANGED <<shutdown_flag, w_started, w_joined, w_alive, wtask,
                   ncalls, dpc, d_i, executed, exec_by, free_count,
                   after_begin, after_flag>>

\* ---- thread_pool_worker, run by _thread_bootstrap through the trampoline

\* _thread_bootstrap sets is_alive and enters the worker loop.
WorkerBoot(w) ==
    /\ wpc[w] = "boot"
    /\ w_alive' = [w_alive EXCEPT ![w] = TRUE]
    /\ wpc' = [wpc EXCEPT ![w] = "lock"]
    /\ UNCHANGED orderVars
    /\ UNCHANGED notPool
    /\ UNCHANGED <<shutdown_flag, task_head, task_tail, task_next, node_state,
                   pool_mutex, cond_waiters, w_started, w_joined, wtask, cpc,
                   ctask, ncalls, submit_ret, dpc, d_i, executed, exec_by,
                   free_count, after_begin, after_flag>>

\* pthread_mutex_lock at the top of the loop, and the re-acquisition of the
\* mutex by which pthread_cond_wait returns; both continue at the while test.
WorkerLock(w) ==
    /\ wpc[w] = "lock"
    /\ pool_mutex = 0
    /\ pool_mutex' = WorkerTid(w)
    /\ wpc' = [wpc EXCEPT ![w] = "locked"]
    /\ UNCHANGED orderVars
    /\ UNCHANGED notPool
    /\ UNCHANGED <<shutdown_flag, task_head, task_tail, task_next, node_state,
                   cond_waiters, w_started, w_joined, w_alive, wtask, cpc,
                   ctask, ncalls, submit_ret, dpc, d_i, executed, exec_by,
                   free_count, after_begin, after_flag>>

\* Lines 197-199: nothing to do and no shutdown: pthread_cond_wait releases
\* the mutex and suspends the worker on the condition.
WorkerWait(w) ==
    /\ wpc[w] = "locked"
    /\ ~shutdown_flag /\ task_head = NULL
    /\ pool_mutex' = 0
    /\ cond_waiters' = cond_waiters \cup {w}
    /\ wpc' = [wpc EXCEPT ![w] = "wait"]
    /\ UNCHANGED orderVars
    /\ UNCHANGED notPool
    /\ UNCHANGED <<shutdown_flag, task_head, task_tail, task_next, node_state,
                   w_started, w_joined, w_alive, wtask, cpc, ctask, ncalls,
                   submit_ret, dpc, d_i, executed, exec_by, free_count,
                   after_begin, after_flag>>

\* pthread_cond_wait may return without a signal (spurious wake-up).
WorkerSpuriousWake(w) ==
    /\ wpc[w] = "wait"
    /\ w \in cond_waiters
    /\ cond_waiters' = cond_waiters \ {w}
    /\ wpc' = [wpc EXCEPT ![w] = "lock"]
    /\ UNCHANGED orderVars
    /\ UNCHANGED notPool
    /\ UNCHANGED <<shutdown_flag, task_head, task_tail, task_next, node_state,
                   pool_mutex, w_started, w_joined, w_alive, wtask, cpc,
                   ctask, ncalls, submit_ret, dpc, d_i, executed, exec_by,
                   free_count, after_begin, after_flag>>

\* Variant of WorkerExit: the worker leaves as soon as the flag is set,
\* whether or not tasks are still queued.
WorkerExit_NoDrain(w) ==
    /\ wpc[w] = "locked"
    /\ shutdown_flag
    /\ pool_mutex' = 0
    /\ wpc' = [wpc EXCEPT ![w] = "exited"]
    /\ w_alive' = [w_alive EXCEPT ![w] = FALSE]
    /\ UNCHANGED orderVars
    /\ UNCHANGED notPool
    /\ UNCHANGED <<shutdown_flag, task_head, task_tail, task_next, node_state,
                   cond_waiters, w_started, w_joined, wtask, cpc, ctask,
                   ncalls, submit_ret, dpc, d_i, executed, exec_by,
                   free_count, after_begin, after_flag>>

\* Lines 200-203 and 217, then the return through the trampoline and
\* _thread_bootstrap (is_alive = false): shutdown and the list is empty.
WorkerExit(w) ==
    /\ wpc[w] = "locked"
    /\ shutdown_flag /\ task_head = NULL
    /\ pool_mutex' = 0
    /\ wpc' = [wpc EXCEPT ![w] = "exited"]
    /\ w_alive' = [w_alive EXCEPT ![w] = FALSE]
    /\ UNCHANGED orderVars
    /\ UNCHANGED notPool
    /\ UNCHANGED <<shutdown_flag, task_head, task_tail, task_next, node_state,
                   cond_waiters, w_started, w_joined, wtask, cpc, ctask,
                   ncalls, submit_ret, dpc, d_i, executed, exec_by,
                   free_count, after_begin, after_flag>>

\* Variant of WorkerDequeue: the head is read but the list is not advanced,
\* so the node stays available to the next worker.
WorkerDequeue_NoAdvance(w) ==
    /\ wpc[w] = "locked"
    /\ task_head # NULL
    /\ wtask' = [wtask EXCEPT ![w] = task_head]
    /\ node_state' = [node_state EXCEPT ![task_head] = "owned"]
    /\ pool_mutex' = 0
    /\ wpc' = [wpc EXCEPT ![w] = "run"]
    /\ deq_order' = Append(deq_order, task_head)
    /\ UNCHANGED enq_order
    /\ UNCHANGED notPool
    /\ UNCHANGED <<shutdown_flag, task_head, task_tail, task_next,
                   cond_waiters, w_started, w_joined, w_alive, cpc, ctask,
                   ncalls, submit_ret, dpc, d_i, executed, exec_by,
                   free_count, after_begin, after_flag>>

\* Variant of WorkerDequeue: the mutex is not released before the task runs.
WorkerDequeue_KeepsLock(w) ==
    /\ wpc[w] = "locked"
    /\ task_head # NULL
    /\ wtask' = [wtask EXCEPT ![w] = task_head]
    /\ task_head' = task_next[task_head]
    /\ task_tail' = IF task_next[task_head] = NULL THEN NULL ELSE task_tail
    /\ node_state' = [node_state EXCEPT ![task_head] = "owned"]
    /\ wpc' = [wpc EXCEPT ![w] = "run"]
    /\ deq_order' = Append(deq_order, task_head)
    /\ UNCHANGED enq_order
    /\ UNCHANGED notPool
    /\ UNCHANGED <<shutdown_flag, task_next, pool_mutex, cond_waiters,
                   w_started, w_joined, w_alive, cpc, ctask, ncalls,
                   submit_ret, dpc, d_i, executed, exec_by, free_count,
                   after_begin, after_flag>>

\* Lines 204-209: take the head node off the list and release the mutex.
WorkerDequeue(w) ==
    /\ wpc[w] = "locked"
    /\ task_head # NULL
    /\ wtask' = [wtask EXCEPT ![w] = task_head]
    /\ task_head' = task_next[task_head]
    /\ task_tail' = IF task_next[task_head] = NULL THEN NULL ELSE task_tail
    /\ node_state' = [node_state EXCEPT ![task_head] = "owned"]
    /\ pool_mutex' = 0
    /\ wpc' = [wpc EXCEPT ![w] = "run"]
    /\ deq_order' = Append(deq_order, task_head)
    /\ UNCHANGED enq_order
    /\ UNCHANGED notPool
    /\ UNCHANGED <<shutdown_flag, task_next, cond_waiters, w_started,
                   w_joined, w_alive, cpc, ctask, ncalls, submit_ret, dpc,
                   d_i, executed, exec_by, free_count, after_begin,
                   after_flag>>

\* Variant of WorkerRun: the node is not freed after task->fn returned.
WorkerRun_NoFree(w) ==
    /\ wpc[w] = "run"
    /\ executed' = [executed EXCEPT ![wtask[w]] = @ + 1]
    /\ exec_by' = [exec_by EXCEPT ![wtask[w]] = @ \cup {w}]
    /\ wtask' = [wtask EXCEPT ![w] = NULL]
    /\ wpc' = [wpc EXCEPT ![w] = "lock"]
    /\ UNCHANGED orderVars
    /\ UNCHANGED notPool
    /\ UNCHANGED <<shutdown_flag, task_head, task_tail, task_next,
                   pool_mutex, cond_waiters, w_started, w_joined, w_alive,
                   cpc, ctask, ncalls, submit_ret, dpc, d_i, after_begin,
                   after_flag, free_count, node_state>>

\* Lines 213-214: task->fn(task->arg) runs to completion, then free(task).
WorkerRun(w) ==
    /\ wpc[w] = "run"
    /\ executed' = [executed EXCEPT ![wtask[w]] = @ + 1]
    /\ exec_by' = [exec_by EXCEPT ![wtask[w]] = @ \cup {w}]
    /\ free_count' = [free_count EXCEPT ![wtask[w]] = @ + 1]
    /\ node_state' = [node_state EXCEPT ![wtask[w]] = "freed"]
    /\ wtask' = [wtask EXCEPT ![w] = NULL]
    /\ wpc' = [wpc EXCEPT ![w] = "lock"]
    /\ UNCHANGED orderVars
    /\ UNCHANGED notPool
    /\ UNCHANGED <<shutdown_flag, task_head, task_tail, task_next,
                   pool_mutex, cond_waiters, w_started, w_joined, w_alive,
                   cpc, ctask, ncalls, submit_ret, dpc, d_i, after_begin,
                   after_flag>>

\* ---- thread_pool_submit called by a task that a worker is running

\* What these actions leave alone: every other component, and the time of
\* the timed scenario.
notPoolSubmit ==
    <<trampVars, semInitVars, timeVars, readVars, queueVars, semVars,
      threadVars, createVars, qcreateVars>>

\* Line 213: the task->fn that worker w runs calls thread_pool_submit on
\* its own pool; the call is number ncalls + 1 and goes to
\* pthread_mutex_lock (line 87).
WorkerSubmitCall(w) ==
    /\ wpc[w] = "run"
    /\ ncalls < MaxTasks
    /\ ncalls' = ncalls + 1
    /\ wsub' = [wsub EXCEPT ![w] = ncalls + 1]
    /\ sub_by' = [sub_by EXCEPT ![ncalls + 1] = w]
    /\ wpc' = [wpc EXCEPT ![w] = "resubmit"]
    /\ UNCHANGED orderVars
    /\ UNCHANGED notPoolSubmit
    /\ UNCHANGED <<shutdown_flag, task_head, task_tail, task_next, node_state,
                   pool_mutex, cond_waiters, w_started, w_joined, w_alive,
                   wtask, cpc, ctask, submit_ret, dpc, d_i, executed,
                   exec_by, free_count, after_begin, after_flag>>

\* Line 87: the call gets the mutex.
WorkerSubmitLock(w) ==
    /\ wpc[w] = "resubmit"
    /\ pool_mutex = 0
    /\ pool_mutex' = WorkerTid(w)
    /\ wpc' = [wpc EXCEPT ![w] = "resubmitting"]
    /\ after_begin' = [after_begin EXCEPT ![wsub[w]] = (dpc # "idle")]
    /\ after_flag' = [after_flag EXCEPT ![wsub[w]] = shutdown_flag]
    /\ UNCHANGED orderVars
    /\ UNCHANGED reentVars
    /\ UNCHANGED notPoolSubmit
    /\ UNCHANGED <<shutdown_flag, task_head, task_tail, task_next, node_state,
                   cond_waiters, w_started, w_joined, w_alive, wtask, cpc,
                   ctask, ncalls, submit_ret, dpc, d_i, executed, exec_by,
                   free_count>>

\* Variant of WorkerSubmitRejected: the flag is not tested and the node is
\* appended during the drain.
WorkerSubmitRejected_Accepts(w) ==
    /\ wpc[w] = "resubmitting"
    /\ shutdown_flag
    /\ Enqueue(wsub[w])
    /\ node_state' = [node_state EXCEPT ![wsub[w]] = "queued"]
    /\ pool_mutex' = 0
    /\ submit_ret' = [submit_ret EXCEPT ![wsub[w]] = "true"]
    /\ wpc' = [wpc EXCEPT ![w] = "run"]
    /\ wsub' = [wsub EXCEPT ![w] = NULL]
    /\ UNCHANGED <<sub_by, deq_order>>
    /\ UNCHANGED notPoolSubmit
    /\ UNCHANGED <<shutdown_flag, cond_waiters, w_started, w_joined, w_alive,
                   wtask, cpc, ctask, ncalls, dpc, d_i, executed, exec_by,
                   free_count, after_begin, after_flag>>

\* Lines 90-97: the flag is set: unlock, return false to the task.
WorkerSubmitRejected(w) ==
    /\ wpc[w] = "resubmitting"
    /\ shutdown_flag
    /\ pool_mutex' = 0
    /\ submit_ret' = [submit_ret EXCEPT ![wsub[w]] = "false"]
    /\ wpc' = [wpc EXCEPT ![w] = "run"]
    /\ wsub' = [wsub EXCEPT ![w] = NULL]
    /\ UNCHANGED sub_by
    /\ UNCHANGED orderVars
    /\ UNCHANGED notPoolSubmit
    /\ UNCHANGED <<shutdown_flag, task_head, task_tail, task_next, node_state,
                   cond_waiters, w_started, w_joined, w_alive, wtask, cpc,
                   ctask, ncalls, dpc, d_i, executed, exec_by, free_count,
                   after_begin, after_flag>>

\* Lines 99-107: malloc fails: unlock, return false to the task.
WorkerSubmitNoMemory(w) ==
    /\ wpc[w] = "resubmitting"
    /\ ~shutdown_flag
    /\ pool_mutex' = 0
    /\ submit_ret' = [submit_ret EXCEPT ![wsub[w]] = "false"]
    /\ wpc' = [wpc EXCEPT ![w] = "run"]
    /\ wsub' = [wsub EXCEPT ![w] = NULL]
    /\ UNCHANGED sub_by
    /\ UNCHANGED orderVars
    /\ UNCHANGED notPoolSubmit
    /\ UNCHANGED <<shutdown_flag, task_head, task_tail, task_next, node_state,
                   cond_waiters, w_started, w_joined, w_alive, wtask, cpc,
                   ctask, ncalls, dpc, d_i, executed, exec_by, free_count,
                   after_begin, after_flag>>

\* Lines 98-130: the node is appended, one waiting worker (v) is signalled,
\* the mutex is released and true is returned to the task.
WorkerSubmitAccepted(w) ==
    /\ wpc[w] = "resubmitting"
    /\ ~shutdown_flag
    /\ Enqueue(wsub[w])
    /\ node_state' = [node_state EXCEPT ![wsub[w]] = "queued"]
    /\ \E v \in Workers \cup {NULL} :
           /\ Signalled(v)
           /\ IF v = NULL
              THEN /\ UNCHANGED cond_waiters
                   /\ wpc' = [wpc EXCEPT ![w] = "run"]
              ELSE /\ cond_waiters' = cond_waiters \ {v}
                   /\ wpc' = [wpc EXCEPT ![v] = "lock", ![w] = "run"]
    /\ pool_mutex' = 0
    /\ submit_ret' = [submit_ret EXCEPT ![wsub[w]] = "true"]
    /\ wsub' = [wsub EXCEPT ![w] = NULL]
    /\ UNCHANGED <<sub_by, deq_order>>
    /\ UNCHANGED notPoolSubmit
    /\ UNCHANGED <<shutdown_flag, w_started, w_joined, w_alive, wtask, cpc,
                   ctask, ncalls, dpc, d_i, executed, exec_by, free_count,
                   after_begin, after_flag>>

\* ---- thread_pool_destroy

\* The call is entered (pool is not NULL) and reaches pthread_mutex_lock.
DestroyCall ==
    /\ dpc = "idle"
    /\ dpc' = "lock"
    /\ UNCHANGED orderVars
    /\ UNCHANGED notPool
    /\ UNCHANGED <<shutdown_flag, task_head, task_tail, task_next, node_state,
                   pool_mutex, cond_waiters, w_started, w_joined, w_alive,
                   wpc, wtask, cpc, ctask, ncalls, submit_ret, d_i, executed,
                   exec_by, free_count, after_begin, after_flag>>

DestroyLock ==
    /\ dpc = "lock"
    /\ pool_mutex = 0
    /\ pool_mutex' = DestroyTid
    /\ dpc' = "locked"
    /\ UNCHANGED orderVars
    /\ UNCHANGED notPool
    /\ UNCHANGED <<shutdown_flag, task_head, task_tail, task_next, node_state,
                   cond_waiters, w_started, w_joined, w_alive, wpc, wtask,
                   cpc, ctask, ncalls, submit_ret, d_i, executed, exec_by,
                   free_count, after_begin, after_flag>>

\* Variant of DestroyShutdown: the flag is set but the condition is not
\* broadcast.
DestroyShutdown_NoBroadcast ==
    /\ dpc = "locked"
    /\ shutdown_flag' = TRUE
    /\ pool_mutex' = 0
    /\ dpc' = "join"
    /\ d_i' = 1
    /\ UNCHANGED orderVars
    /\ UNCHANGED notPool
    /\ UNCHANGED <<task_head, task_tail, task_next, node_state, w_started,
                   w_joined, w_alive, wtask, cpc, ctask, ncalls, submit_ret,
                   executed, exec_by, free_count, after_begin, after_flag,
                   wpc, cond_waiters>>

\* Lines 144-146: set the flag, pthread_cond_broadcast releases every
\* suspended worker, unlock.
DestroyShutdown ==
    /\ dpc = "locked"
    /\ shutdown_flag' = TRUE
    /\ wpc' = [w \in Workers |-> IF w \in cond_waiters THEN "lock" ELSE wpc[w]]
    /\ cond_waiters' = {}
    /\ pool_mutex' = 0
    /\ dpc' = "join"
    /\ d_i' = 1
    /\ UNCHANGED orderVars
    /\ UNCHANGED notPool
    /\ UNCHANGED <<task_head, task_tail, task_next, node_state, w_started,
                   w_joined, w_alive, wtask, cpc, ctask, ncalls, submit_ret,
                   executed, exec_by, free_count, after_begin, after_flag>>

\* Lines 150-152 with thread_join / Thread_join (adv_thread.c:218-225,
\* 119-121): a handle that is not started or already joined is skipped,
\* otherwise joined is set and pthread_join is entered.
DestroyJoin ==
    /\ dpc = "join"
    /\ d_i <= NumWorkers
    /\ IF ~w_started[d_i] \/ w_joined[d_i]
       THEN /\ d_i' = d_i + 1
            /\ UNCHANGED <<w_joined, dpc>>
       ELSE /\ w_joined' = [w_joined EXCEPT ![d_i] = TRUE]
            /\ dpc' = "joining"
            /\ UNCHANGED d_i
    /\ UNCHANGED orderVars
    /\ UNCHANGED notPool
    /\ UNCHANGED <<shutdown_flag, task_head, task_tail, task_next, node_state,
                   pool_mutex, cond_waiters, w_started, w_alive, wpc, wtask,
                   cpc, ctask, ncalls, submit_ret, executed, exec_by,
                   free_count, after_begin, after_flag>>

\* Variant of DestroyJoined: the join does not wait for the worker thread.
DestroyJoined_NoWait ==
    /\ dpc = "joining"
    /\ dpc' = "join"
    /\ d_i' = d_i + 1
    /\ UNCHANGED orderVars
    /\ UNCHANGED notPool
    /\ UNCHANGED <<shutdown_flag, task_head, task_tail, task_next, node_state,
                   pool_mutex, cond_waiters, w_started, w_joined, w_alive,
                   wpc, wtask, cpc, ctask, ncalls, submit_ret, executed,
                   exec_by, free_count, after_begin, after_flag>>

\* pthread_join returns once the worker thread has terminated.
DestroyJoined ==
    /\ dpc = "joining"
    /\ wpc[d_i] = "exited"
    /\ dpc' = "join"
    /\ d_i' = d_i + 1
    /\ UNCHANGED orderVars
    /\ UNCHANGED notPool
    /\ UNCHANGED <<shutdown_flag, task_head, task_tail, task_next, node_state,
                   pool_mutex, cond_waiters, w_started, w_joined, w_alive,
                   wpc, wtask, cpc, ctask, ncalls, submit_ret, executed,
                   exec_by, free_count, after_begin, after_flag>>

\* The nodes reachable from node t along next (the list is at most MaxTasks long).
RECURSIVE Chain(_, _)
Chain(t, n) ==
    IF t = NULL \/ n = 0 THEN {} ELSE {t} \cup Chain(task_next[t], n - 1)

\* Variant of DestroyFree: the pool's fields are cleared as it is released.
DestroyFree_ClearsFlag ==
    /\ dpc = "join"
    /\ d_i > NumWorkers
    /\ shutdown_flag' = FALSE
    /\ free_count' = [t \in Tasks |->
                        IF t \in Chain(task_head, MaxTasks)
                        THEN free_count[t] + 1 ELSE free_count[t]]
    /\ node_state' = [t \in Tasks |->
                        IF t \in Chain(task_head, MaxTasks)
                        THEN "freed" ELSE node_state[t]]
    /\ dpc' = "done"
    /\ UNCHANGED orderVars
    /\ UNCHANGED notPool
    /\ UNCHANGED <<task_head, task_tail, task_next,
                   pool_mutex, cond_waiters, w_started, w_joined, w_alive,
                   wpc, wtask, cpc, ctask, ncalls, submit_ret, d_i, executed,
                   exec_by, after_begin, after_flag>>

\* Lines 154-171: free every node still in the list, then the worker array,
\* the mutex, the condition and the pool itself.
DestroyFree ==
    /\ dpc = "join"
    /\ d_i > NumWorkers
    /\ free_count' = [t \in Tasks |->
                        IF t \in Chain(task_head, MaxTasks)
                        THEN free_count[t] + 1 ELSE free_count[t]]
    /\ node_state' = [t \in Tasks |->
                        IF t \in Chain(task_head, MaxTasks)
                        THEN "freed" ELSE node_state[t]]
    /\ dpc' = "done"
    /\ UNCHANGED orderVars
    /\ UNCHANGED notPool
    /\ UNCHANGED <<shutdown_flag, task_head, task_tail, task_next,
                   pool_mutex, cond_waiters, w_started, w_joined, w_alive,
                   wpc, wtask, cpc, ctask, ncalls, submit_ret, d_i, executed,
                   exec_by, after_begin, after_flag>>

PoolNext ==
    \/ \E c \in Clients : SubmitLock(c)
    \/ \E c \in Clients : SubmitRejected(c)
    \/ \E c \in Clients : SubmitNoMemory(c)
    \/ \E c \in Clients : SubmitAccepted(c)
    \/ \E w \in Workers : WorkerBoot(w)
    \/ \E w \in Workers : WorkerLock(w)
    \/ \E w \in Workers : WorkerWait(w)
    \/ \E w \in Workers : WorkerSpuriousWake(w)
    \/ \E w \in Workers : WorkerExit(w)
    \/ \E w \in Workers : WorkerDequeue(w)
    \/ \E w \in Workers : WorkerRun(w)
    \/ DestroyCall
    \/ DestroyLock
    \/ DestroyShutdown
    \/ DestroyJoin
    \/ DestroyJoined
    \/ DestroyFree


\* ---- tasks that sleep (thread_pool_test.c: sample_task)

\* sample_task sleeps for one second.
TaskTime == 1

\* The tasks that are being executed and have not yet slept their time.
Asleep == {t \in Tasks : node_state[t] = "owned" /\ t_slept[t] < TaskTime}

\* One time unit goes by while at least one task is asleep: every task that
\* is asleep has slept one more unit.  (Time that goes by while no task is
\* asleep is not counted: now is a lower bound of the time elapsed.)
Tick ==
    /\ Asleep # {}
    /\ now' = now + 1
    /\ t_slept' = [t \in Tasks |->
                     IF t \in Asleep THEN t_slept[t] + 1 ELSE t_slept[t]]
    /\ UNCHANGED notTime

\* WorkerRun for a task that is sample_task: task->fn returns once the task
\* has slept its time.
WorkerRunSleeping(w) ==
    /\ wpc[w] = "run"
    /\ t_slept[wtask[w]] >= TaskTime
    /\ WorkerRun(w)

\* thread_pool_test.c:33-44: thread_pool_destroy is called once all the
\* submit calls have been made and have returned.
DestroyCallAfterSubmits ==
    /\ ncalls = MaxTasks
    /\ \A c \in Clients : cpc[c] = "idle"
    /\ DestroyCall

PoolTimedNext ==
    \/ \E c \in Clients : SubmitLock(c)
    \/ \E c \in Clients : SubmitNoMemory(c)
    \/ \E c \in Clients : SubmitAccepted(c)
    \/ \E w \in Workers : WorkerBoot(w)
    \/ \E w \in Workers : WorkerLock(w)
    \/ \E w \in Workers : WorkerWait(w)
    \/ \E w \in Workers : WorkerSpuriousWake(w)
    \/ \E w \in Workers : WorkerExit(w)
    \/ \E w \in Workers : WorkerDequeue(w)
    \/ \E w \in Workers : WorkerRunSleeping(w)
    \/ DestroyCallAfterSubmits
    \/ DestroyLock
    \/ DestroyShutdown
    \/ DestroyJoin
    \/ DestroyJoined
    \/ DestroyFree
    \/ Tick

\* ---- thread_pool_create

\* thread_pool_create(NumWorkers) has returned a pool whose thread_create
\* calls all succeeded (the state PoolInit describes).
PoolCreated ==
    /\ cr_pc = "done"
    /\ cr_i = NumWorkers + 1
    /\ num_threads = NumWorkers
    /\ cr_result = [w \in Workers |-> "ok"]
    /\ join_unset = FALSE

\* Before thread_pool_create is called: there is no pool, no worker array
\* and no thread; nobody can call submit or destroy yet.
PoolBlank ==
    /\ shutdown_flag = FALSE
    /\ task_head = NULL
    /\ task_tail = NULL
    /\ task_next = [t \in Tasks |-> NULL]
    /\ node_state = [t \in Tasks |-> "none"]
    /\ pool_mutex = 0
    /\ cond_waiters = {}
    /\ w_started = [w \in Workers |-> FALSE]
    /\ w_joined = [w \in Workers |-> FALSE]
    /\ w_alive = [w \in Workers |-> FALSE]
    /\ wpc = [w \in Workers |-> "none"]
    /\ wtask = [w \in Workers |-> NULL]
    /\ cpc = [c \in Clients |-> "nopool"]
    /\ ctask = [c \in Clients |-> NULL]
    /\ ncalls = 0
    /\ submit_ret = [t \in Tasks |-> "none"]
    /\ dpc = "nopool"
    /\ d_i = 0
    /\ executed = [t \in Tasks |-> 0]
    /\ exec_by = [t \in Tasks |-> {}]
    /\ free_count = [t \in Tasks |-> 0]
    /\ after_begin = [t \in Tasks |-> FALSE]
    /\ after_flag = [t \in Tasks |-> FALSE]
    /\ enq_order = <<>>
    /\ deq_order = <<>>
    /\ now = 0
    /\ t_slept = [t \in Tasks |-> 0]
    /\ wsub = [w \in Workers |-> NULL]
    /\ sub_by = [t \in Tasks |-> NULL]
    /\ cr_pc = "idle"
    /\ cr_i = 0
    /\ num_threads = 0
    /\ cr_result = [w \in Workers |-> "-"]
    /\ join_unset = FALSE

PoolFrame ==
    UNCHANGED <<task_next, node_state, cond_waiters, wtask, ctask, ncalls,
                submit_ret, d_i, executed, exec_by, free_count, after_begin,
                after_flag, join_unset>>

\* Lines 44-67.  n = 0: NULL is returned.  Otherwise the pool and the
\* worker array are allocated, the flag, the list, the mutex and the
\* condition are initialised and the creation loop is entered.
PoolCreateCall(n) ==
    /\ cr_pc = "idle"
    /\ num_threads' = n
    /\ IF n = 0
       THEN /\ cr_pc' = "null"
            /\ UNCHANGED <<shutdown_flag, task_head, task_tail, pool_mutex,
                           cr_i>>
       ELSE /\ cr_pc' = "loop"
            /\ shutdown_flag' = FALSE
            /\ task_head' = NULL
            /\ task_tail' = NULL
            /\ pool_mutex' = 0
            /\ cr_i' = 1
    /\ PoolFrame
    /\ UNCHANGED <<w_started, w_joined, w_alive, wpc, cpc, dpc, cr_result>>
    /\ UNCHANGED notCreate

\* Lines 47-54: malloc of the pool or of the worker array fails.
PoolCreateNoMemory(n) ==
    /\ cr_pc = "idle"
    /\ n > 0
    /\ num_threads' = n
    /\ cr_pc' = "null"
    /\ PoolFrame
    /\ UNCHANGED <<shutdown_flag, task_head, task_tail, pool_mutex, cr_i,
                   w_started, w_joined, w_alive, wpc, cpc, dpc, cr_result>>
    /\ UNCHANGED notCreate

\* Variant of PoolCreateThread: the handle is initialised but the native
\* thread is not started.
PoolCreateThread_NotStarted ==
    /\ cr_pc = "loop"
    /\ cr_i <= num_threads
    /\ w_started' = [w_started EXCEPT ![cr_i] = FALSE]
    /\ w_joined' = [w_joined EXCEPT ![cr_i] = FALSE]
    /\ w_alive' = [w_alive EXCEPT ![cr_i] = FALSE]
    /\ cr_result' = [cr_result EXCEPT ![cr_i] = "ok"]
    /\ cr_i' = cr_i + 1
    /\ PoolFrame
    /\ UNCHANGED <<shutdown_flag, task_head, task_tail, pool_mutex, wpc, cpc,
                   dpc, cr_pc, num_threads>>
    /\ UNCHANGED notCreate

\* Lines 69-70 with thread_create (adv_thread.c:188-212) succeeding for
\* workers[i]: Thread_init, then Thread_start creates the native thread,
\* which will enter _thread_bootstrap.
PoolCreateThread ==
    /\ cr_pc = "loop"
    /\ cr_i <= num_threads
    /\ w_started' = [w_started EXCEPT ![cr_i] = TRUE]
    /\ w_joined' = [w_joined EXCEPT ![cr_i] = FALSE]
    /\ w_alive' = [w_alive EXCEPT ![cr_i] = FALSE]
    /\ wpc' = [wpc EXCEPT ![cr_i] = "boot"]
    /\ cr_result' = [cr_result EXCEPT ![cr_i] = "ok"]
    /\ cr_i' = cr_i + 1
    /\ PoolFrame
    /\ UNCHANGED <<shutdown_flag, task_head, task_tail, pool_mutex, cpc, dpc,
                   cr_pc, num_threads>>
    /\ UNCHANGED notCreate

\* Lines 69-75 with thread_create failing in pthread_create: Thread_init
\* has run, started was set and cleared; the failure is only logged.
PoolCreateThreadFailed ==
    /\ cr_pc = "loop"
    /\ cr_i <= num_threads
    /\ w_started' = [w_started EXCEPT ![cr_i] = FALSE]
    /\ w_joined' = [w_joined EXCEPT ![cr_i] = FALSE]
    /\ w_alive' = [w_alive EXCEPT ![cr_i] = FALSE]
    /\ cr_result' = [cr_result EXCEPT ![cr_i] = "pthread"]
    /\ cr_i' = cr_i + 1
    /\ PoolFrame
    /\ UNCHANGED <<shutdown_flag, task_head, task_tail, pool_mutex, wpc, cpc,
                   dpc, cr_pc, num_threads>>
    /\ UNCHANGED notCreate

\* Lines 69-75 with thread_create failing in malloc (adv_thread.c:194-196):
\* workers[i] is not initialised; its flags are whatever the malloc'ed
\* array holds there.
PoolCreateThreadNoMemory ==
    /\ cr_pc = "loop"
    /\ cr_i <= num_threads
    /\ \E started \in BOOLEAN, joined \in BOOLEAN :
          /\ w_started' = [w_started EXCEPT ![cr_i] = started]
          /\ w_joined' = [w_joined EXCEPT ![cr_i] = joined]
    /\ cr_result' = [cr_result EXCEPT ![cr_i] = "nomem"]
    /\ cr_i' = cr_i + 1
    /\ PoolFrame
    /\ UNCHANGED <<shutdown_flag, task_head, task_tail, pool_mutex, w_alive,
                   wpc, cpc, dpc, cr_pc, num_threads>>
    /\ UNCHANGED notCreate

\* Line 77: the pool is returned; from now on it can be given to
\* thread_pool_submit and thread_pool_destroy.
PoolCreateReturn ==
    /\ cr_pc = "loop"
    /\ cr_i > num_threads
    /\ cr_pc' = "done"
    /\ cpc' = [c \in Clients |-> "idle"]
    /\ dpc' = "idle"
    /\ PoolFrame
    /\ UNCHANGED <<shutdown_flag, task_head, task_tail, pool_mutex,
                   w_started, w_joined, w_alive, wpc, cr_i, num_threads,
                   cr_result>>
    /\ UNCHANGED notCreate

\* thread_pool_destroy, line 151, on a handle that thread_create left
\* uninitialised and whose flags read started and not joined: pthread_join
\* is called on a thread_id that was never set, which is undefined; the call
\* fails and returns, or the process is brought down.
DestroyJoinUnset ==
    /\ dpc = "joining"
    /\ wpc[d_i] = "none"
    /\ join_unset' = TRUE
    /\ \/ /\ dpc' = "join"
          /\ d_i' = d_i + 1
       \/ /\ dpc' = "crashed"
          /\ UNCHANGED d_i
    /\ UNCHANGED <<shutdown_flag, task_head, task_tail, task_next, node_state,
                   pool_mutex, cond_waiters, w_started, w_joined, w_alive,
                   wpc, wtask, cpc, ctask, ncalls, submit_ret, executed,
                   exec_by, free_count, after_begin, after_flag>>
    /\ UNCHANGED <<cr_pc, cr_i, num_threads, cr_result>>
    /\ UNCHANGED notCreate

\* thread_pool_create and the threads it starts, up to its return.
PoolCreateNext ==
    \/ \E n \in {0, NumWorkers} : PoolCreateCall(n)
    \/ PoolCreateNoMemory(NumWorkers)
    \/ PoolCreateThread
    \/ PoolCreateThreadFailed
    \/ PoolCreateThreadNoMemory
    \/ PoolCreateReturn
    \/ \E w \in Workers : WorkerBoot(w)
    \/ \E w \in Workers : WorkerLock(w)
    \/ \E w \in Workers : WorkerWait(w)
    \/ \E w \in Workers : WorkerSpuriousWake(w)

\* ------------------------------------------------------ pool: claims

Accepted(t) == submit_ret[t] = "true"
InList(t)   == t \in Chain(task_head, MaxTasks)

\* C1: every task whose submit returned true is executed exactly once and by
\* exactly one worker: never twice, never by two workers, never without
\* having been accepted, and once thread_pool_destroy has returned no
\* accepted task is left unexecuted (whatever the ratio of tasks to workers).
C1_ExactlyOnce ==
    \A t \in Tasks :
        /\ executed[t] <= 1
        /\ Cardinality(exec_by[t]) <= 1
        /\ executed[t] = Cardinality(exec_by[t])
        /\ executed[t] = 1 => Accepted(t)
        /\ (Accepted(t) /\ PoolFreed) => executed[t] = 1

\* C1 witness: more tasks than workers, all accepted, each run once, the
\* work shared by two different workers, pool destroyed.
C1_Witness ==
    /\ PoolFreed
    /\ MaxTasks > NumWorkers
    /\ \A t \in Tasks : Accepted(t) /\ executed[t] = 1
    /\ \E t1, t2 \in Tasks : exec_by[t1] # exec_by[t2]

\* C2: drain on shutdown: when thread_pool_destroy reaches its free loop and
\* when it returns, every task accepted before destroy was entered has
\* finished executing, no worker is still running a task, and the task list
\* is empty (destroy frees no unexecuted node).
C2_DrainOnShutdown ==
    (dpc = "done" \/ (dpc = "join" /\ d_i > NumWorkers)) =>
        /\ \A t \in Tasks :
              (Accepted(t) /\ ~after_begin[t]) =>
                  executed[t] = 1 /\ node_state[t] = "freed"
        /\ \A w \in Workers : wpc[w] = "exited" /\ wtask[w] = NULL
        /\ task_head = NULL
        /\ \A t \in Tasks : ~InList(t) /\ node_state[t] # "queued"

\* C2 witness: all MaxTasks submissions were accepted before destroy was
\* entered and destroy has returned.
C2_Witness ==
    /\ dpc = "done"
    /\ \A t \in Tasks : Accepted(t) /\ ~after_begin[t] /\ free_count[t] = 1

C4_AllOrNothing ==
    \A t \in Tasks :
        after_begin[t] =>
            /\ Accepted(t) =>
                  /\ executed[t] <= 1
                  /\ node_state[t] \in {"queued", "owned", "freed"}
                  /\ node_state[t] = "queued" <=> InList(t)
                  /\ node_state[t] = "freed" <=> executed[t] = 1
                  /\ PoolFreed => executed[t] = 1
            /\ ~Accepted(t) =>
                  /\ executed[t] = 0
                  /\ node_state[t] = "none"
                  /\ ~InList(t)
                  /\ \A w \in Workers : wtask[w] # t

\* C4 witness: of two calls made after destroy was entered, one won the lock
\* before the flag was set, was accepted and executed, the other lost and
\* was rejected; destroy has returned.
C4_Witness ==
    /\ dpc = "done"
    /\ \E t1, t2 \in Tasks :
          /\ after_begin[t1] /\ ~after_flag[t1]
          /\ Accepted(t1) /\ executed[t1] = 1
          /\ after_begin[t2] /\ after_flag[t2]
          /\ submit_ret[t2] = "false" /\ executed[t2] = 0

\* --------------------------------------------------------- semaphore
\* adv_semaphore.c, POSIX branch: the count held by the sem_t.

\* Semaphore_init(s, initial_count, max_count): sem_init with initial_count;
\* max_count is ignored.
Semaphore_init(initial_count, max_count) == initial_count

\* Semaphore_wait: sem_wait returns only once the count is positive ...
Semaphore_canWait(count) == count > 0

\* ... and takes one unit.
Semaphore_wait(count) == count - 1

\* Semaphore_post: sem_post adds one unit.
Semaphore_post(count) == count + 1

\* --------------------------------------------------------------- queue

\* The large max_count queue_create passes for the item semaphore.
ItemsMax == 9999999

\* The data carried by the n-th queue_push call (queue_test.c:39 builds its
\* data from the thread and the iteration in the same way).
PushData(p, n) == p * 100 + n

\* The thread reading the size has made no call yet.
ReadInit ==
    /\ rpc = "idle"
    /\ r_op = "none"
    /\ r_size = 0
    /\ r_empty = FALSE

\* The list and the callers of a queue: no node, no call made yet.
QueueFrame ==
    /\ q_next = [n \in QNodes |-> NULL]
    /\ q_data = [n \in QNodes |-> NULL]
    /\ q_live = {}
    /\ pnode = [p \in Producers |-> NULL]
    /\ npush = 0
    /\ npop = 0
    /\ q_crashed = FALSE
    /\ push_order = <<>>
    /\ pop_order = <<>>
    /\ q_dropped = 0
    /\ k_since = [k \in Consumers |-> "-"]
    /\ push_ret = "none"

\* Before queue_create is called there is no queue: no thread can call
\* queue_push or queue_pop ("noqueue").
QueueBlank ==
    /\ QueueFrame
    /\ q_head = NULL
    /\ q_tail = NULL
    /\ q_size = 0
    /\ q_mutex = 0
    /\ q_items = 0
    /\ ReadInit
    /\ ppc = [p \in Producers |-> "noqueue"]
    /\ kpc = [k \in Consumers |-> "noqueue"]
    /\ qc_pc = "idle"
    /\ qc_ret = "none"
    /\ qc_failed = {}

\* queue_create, every allocation and both Semaphore_init calls having
\* succeeded: empty list, size 0, mutex semaphore at 1, item semaphore at 0.
QueueInit ==
    /\ ReadInit
    /\ qc_pc = "done"
    /\ qc_ret = "queue"
    /\ qc_failed = {}
    /\ q_head = NULL
    /\ q_tail = NULL
    /\ q_size = 0
    /\ q_next = [n \in QNodes |-> NULL]
    /\ q_data = [n \in QNodes |-> NULL]
    /\ q_live = {}
    /\ q_mutex = Semaphore_init(1, 1)
    /\ q_items = Semaphore_init(0, ItemsMax)
    /\ ppc = [p \in Producers |-> "idle"]
    /\ pnode = [p \in Producers |-> NULL]
    /\ npush = 0
    /\ kpc = [k \in Consumers |-> "idle"]
    /\ npop = 0
    /\ q_crashed = FALSE
    /\ push_order = <<>>
    /\ pop_order = <<>>
    /\ q_dropped = 0
    /\ k_since = [k \in Consumers |-> "-"]
    /\ push_ret = "none"

\* mutex_lock / mutex_unlock (queue.c:30-35) on the binary semaphore.
mutex_canLock == Semaphore_canWait(q_mutex)
mutex_lock    == q_mutex' = Semaphore_wait(q_mutex)
mutex_unlock  == q_mutex' = Semaphore_post(q_mutex)

\* ---- queue_push

\* Lines 91-100: the call is made, malloc succeeds and the node is filled
\* with the data of this call; the caller reaches mutex_lock.  The node of
\* the n-th call is node n.
PushAlloc(p) ==
    /\ ppc[p] = "idle"
    /\ npush < MaxPushes
    /\ npush' = npush + 1
    /\ pnode' = [pnode EXCEPT ![p] = npush + 1]
    /\ q_live' = q_live \cup {npush + 1}
    /\ q_data' = [q_data EXCEPT ![npush + 1] = PushData(p, npush + 1)]
    /\ q_next' = [q_next EXCEPT ![npush + 1] = NULL]
    /\ ppc' = [ppc EXCEPT ![p] = "lock"]
    /\ UNCHANGED push_ret
    /\ UNCHANGED notQueue
    /\ UNCHANGED <<q_head, q_tail, q_size, q_mutex, q_items, kpc, npop,
                   q_crashed, push_order, pop_order, q_dropped, k_since>>

\* Lines 94-95: malloc fails; queue_push, a void function, returns with a
\* plain return statement; nothing is enqueued.
PushNoMemory(p) ==
    /\ ppc[p] = "idle"
    /\ npush < MaxPushes
    /\ npush' = npush + 1
    /\ q_dropped' = q_dropped + 1
    /\ push_ret' = "void"
    /\ UNCHANGED notQueue
    /\ UNCHANGED <<q_head, q_tail, q_size, q_next, q_data, q_live, q_mutex,
                   q_items, ppc, pnode, kpc, npop, q_crashed, push_order,
                   pop_order, k_since>>

\* Variant of PushLock: the item semaphore is posted as the mutex is taken,
\* before the node is in the list.
PushLock_PostsFirst(p) ==
    /\ ppc[p] = "lock"
    /\ mutex_canLock
    /\ mutex_lock
    /\ q_items' = Semaphore_post(q_items)
    /\ ppc' = [ppc EXCEPT ![p] = "locked"]
    /\ UNCHANGED push_ret
    /\ UNCHANGED notQueue
    /\ UNCHANGED <<q_head, q_tail, q_size, q_next, q_data, q_live,
                   pnode, npush, kpc, npop, q_crashed, push_order, pop_order,
                   q_dropped, k_since>>

\* Variant of PushLock: the queue has a capacity of one item and a push
\* waits for room.
PushLock_WaitsForRoom(p) ==
    /\ ppc[p] = "lock"
    /\ q_size < 1
    /\ mutex_canLock
    /\ mutex_lock
    /\ ppc' = [ppc EXCEPT ![p] = "locked"]
    /\ UNCHANGED push_ret
    /\ UNCHANGED notQueue
    /\ UNCHANGED <<q_head, q_tail, q_size, q_next, q_data, q_live, q_items,
                   pnode, npush, kpc, npop, q_crashed, push_order, pop_order,
                   q_dropped, k_since>>

\* Lines 100-101: mutex_lock.
PushLock(p) ==
    /\ ppc[p] = "lock"
    /\ mutex_canLock
    /\ mutex_lock
    /\ ppc' = [ppc EXCEPT ![p] = "locked"]
    /\ UNCHANGED push_ret
    /\ UNCHANGED notQueue
    /\ UNCHANGED <<q_head, q_tail, q_size, q_next, q_data, q_live, q_items,
                   pnode, npush, kpc, npop, q_crashed, push_order, pop_order,
                   q_dropped, k_since>>

\* Variant of PushLink: the node is linked in front of the head.
PushLink_AtHead(p) ==
    /\ ppc[p] = "locked"
    /\ q_next' = [q_next EXCEPT ![pnode[p]] = q_head]
    /\ q_head' = pnode[p]
    /\ q_tail' = IF q_tail = NULL THEN pnode[p] ELSE q_tail
    /\ q_size' = q_size + 1
    /\ mutex_unlock
    /\ push_order' = Append(push_order, q_data[pnode[p]])
    /\ k_since' = [k \in Consumers |->
                      IF k_since[k] = "none" THEN "pushed" ELSE k_since[k]]
    /\ ppc' = [ppc EXCEPT ![p] = "post"]
    /\ UNCHANGED push_ret
    /\ UNCHANGED notQueue
    /\ UNCHANGED <<q_data, q_live, q_items, pnode, npush, kpc, npop,
                   q_crashed, pop_order, q_dropped>>

\* Variant of PushLink: size is not incremented.
PushLink_NoCount(p) ==
    /\ ppc[p] = "locked"
    /\ IF q_tail = NULL
       THEN /\ q_head' = pnode[p]
            /\ q_tail' = pnode[p]
            /\ UNCHANGED q_next
       ELSE /\ q_next' = [q_next EXCEPT ![q_tail] = pnode[p]]
            /\ q_tail' = pnode[p]
            /\ UNCHANGED q_head
    /\ mutex_unlock
    /\ push_order' = Append(push_order, q_data[pnode[p]])
    /\ k_since' = [k \in Consumers |->
                      IF k_since[k] = "none" THEN "pushed" ELSE k_since[k]]
    /\ ppc' = [ppc EXCEPT ![p] = "post"]
    /\ UNCHANGED push_ret
    /\ UNCHANGED notQueue
    /\ UNCHANGED <<q_size, q_data, q_live, q_items, pnode, npush, kpc, npop,
                   q_crashed, pop_order, q_dropped>>

\* Lines 103-112: link the node at the tail, size++, mutex_unlock.
PushLink_SignalsUnderLock(p) ==
    /\ ppc[p] = "locked"
    /\ IF q_tail = NULL
       THEN /\ q_head' = pnode[p]
            /\ q_tail' = pnode[p]
            /\ UNCHANGED q_next
       ELSE /\ q_next' = [q_next EXCEPT ![q_tail] = pnode[p]]
            /\ q_tail' = pnode[p]
            /\ UNCHANGED q_head
    /\ q_size' = q_size + 1
    /\ q_items' = Semaphore_post(q_items)
    /\ mutex_unlock
    /\ push_order' = Append(push_order, q_data[pnode[p]])
    /\ k_since' = [k \in Consumers |->
                      IF k_since[k] = "none" THEN "pushed" ELSE k_since[k]]
    /\ ppc' = [ppc EXCEPT ![p] = "post"]
    /\ UNCHANGED push_ret
    /\ UNCHANGED notQueue
    /\ UNCHANGED <<q_data, q_live, pnode, npush, kpc, npop,
                   q_crashed, pop_order, q_dropped>>

PushLink(p) ==
    /\ ppc[p] = "locked"
    /\ IF q_tail = NULL
       THEN /\ q_head' = pnode[p]
            /\ q_tail' = pnode[p]
            /\ UNCHANGED q_next
       ELSE /\ q_next' = [q_next EXCEPT ![q_tail] = pnode[p]]
            /\ q_tail' = pnode[p]
            /\ UNCHANGED q_head
    /\ q_size' = q_size + 1
    /\ mutex_unlock
    /\ push_order' = Append(push_order, q_data[pnode[p]])
    /\ k_since' = [k \in Consumers |->
                      IF k_since[k] = "none" THEN "pushed" ELSE k_since[k]]
    /\ ppc' = [ppc EXCEPT ![p] = "post"]
    /\ UNCHANGED push_ret
    /\ UNCHANGED notQueue
    /\ UNCHANGED <<q_data, q_live, q_items, pnode, npush, kpc, npop,
                   q_crashed, pop_order, q_dropped>>

\* Variant of PushPost: the item semaphore is not posted.
PushPost_NoSignal(p) ==
    /\ ppc[p] = "post"
    /\ pnode' = [pnode EXCEPT ![p] = NULL]
    /\ ppc' = [ppc EXCEPT ![p] = "idle"]
    /\ UNCHANGED push_ret
    /\ UNCHANGED notQueue
    /\ UNCHANGED <<q_head, q_tail, q_size, q_next, q_data, q_live, q_mutex,
                   q_items, npush, kpc, npop, q_crashed, push_order,
                   pop_order, q_dropped, k_since>>

\* Lines 114-117: Semaphore_post on the item semaphore, return.
PushPost(p) ==
    /\ ppc[p] = "post"
    /\ q_items' = Semaphore_post(q_items)
    /\ pnode' = [pnode EXCEPT ![p] = NULL]
    /\ ppc' = [ppc EXCEPT ![p] = "idle"]
    /\ UNCHANGED push_ret
    /\ UNCHANGED notQueue
    /\ UNCHANGED <<q_head, q_tail, q_size, q_next, q_data, q_live, q_mutex,
                   npush, kpc, npop, q_crashed, push_order, pop_order,
                   q_dropped, k_since>>

\* ---- queue_pop

\* Lines 119-123: the call is issued and reaches Semaphore_wait on the item
\* semaphore.
PopCall(k) ==
    /\ kpc[k] = "idle"
    /\ npop < MaxPushes
    /\ npop' = npop + 1
    /\ kpc' = [kpc EXCEPT ![k] = "wait"]
    /\ k_since' = [k_since EXCEPT ![k] = IF q_size = 0 THEN "none" ELSE "-"]
    /\ UNCHANGED push_ret
    /\ UNCHANGED notQueue
    /\ UNCHANGED <<q_head, q_tail, q_size, q_next, q_data, q_live, q_mutex,
                   q_items, ppc, pnode, npush, q_crashed, push_order,
                   pop_order, q_dropped>>

\* Variant of PopWait: the consumer goes on without an item permit.
PopWait_NoBlock(k) ==
    /\ kpc[k] = "wait"
    /\ kpc' = [kpc EXCEPT ![k] = "lock"]
    /\ UNCHANGED push_ret
    /\ UNCHANGED notQueue
    /\ UNCHANGED <<q_head, q_tail, q_size, q_next, q_data, q_live, q_mutex,
                   q_items, ppc, pnode, npush, npop, q_crashed, push_order,
                   pop_order, q_dropped, k_since>>

\* Variant of PopWait: Semaphore_wait lets the consumer through on a
\* positive count without taking a permit.
PopWait_KeepsPermit(k) ==
    /\ kpc[k] = "wait"
    /\ Semaphore_canWait(q_items)
    /\ q_items' = q_items
    /\ kpc' = [kpc EXCEPT ![k] = "lock"]
    /\ UNCHANGED push_ret
    /\ UNCHANGED notQueue
    /\ UNCHANGED <<q_head, q_tail, q_size, q_next, q_data, q_live, q_mutex,
                   ppc, pnode, npush, npop, q_crashed, push_order, pop_order,
                   q_dropped, k_since>>

\* Line 123: Semaphore_wait returns, having taken one item permit.
PopWait(k) ==
    /\ kpc[k] = "wait"
    /\ Semaphore_canWait(q_items)
    /\ q_items' = Semaphore_wait(q_items)
    /\ kpc' = [kpc EXCEPT ![k] = "lock"]
    /\ UNCHANGED push_ret
    /\ UNCHANGED notQueue
    /\ UNCHANGED <<q_head, q_tail, q_size, q_next, q_data, q_live, q_mutex,
                   ppc, pnode, npush, npop, q_crashed, push_order, pop_order,
                   q_dropped, k_since>>

\* Variant of PopLock: the consumer goes on without taking the mutex.
PopLock_NoLock(k) ==
    /\ kpc[k] = "lock"
    /\ UNCHANGED q_mutex
    /\ kpc' = [kpc EXCEPT ![k] = "locked"]
    /\ UNCHANGED push_ret
    /\ UNCHANGED notQueue
    /\ UNCHANGED <<q_head, q_tail, q_size, q_next, q_data, q_live, q_items,
                   ppc, pnode, npush, npop, q_crashed, push_order, pop_order,
                   q_dropped, k_since>>

\* Lines 126-127: mutex_lock.
PopLock(k) ==
    /\ kpc[k] = "lock"
    /\ mutex_canLock
    /\ mutex_lock
    /\ kpc' = [kpc EXCEPT ![k] = "locked"]
    /\ UNCHANGED push_ret
    /\ UNCHANGED notQueue
    /\ UNCHANGED <<q_head, q_tail, q_size, q_next, q_data, q_live, q_items,
                   ppc, pnode, npush, npop, q_crashed, push_order, pop_order,
                   q_dropped, k_since>>

\* q->size-- on a size_t: below 0 it wraps to SIZE_MAX, written -1 here.
SizeDec(n) == IF n = 0 THEN 0 - 1 ELSE n - 1

\* Variant of PopUnlink: tail is left alone when the last node is unlinked.
PopUnlink_KeepsTail(k) ==
    /\ kpc[k] = "locked"
    /\ IF q_head = NULL
       THEN /\ q_crashed' = TRUE
            /\ kpc' = [kpc EXCEPT ![k] = "crashed"]
            /\ UNCHANGED <<q_head, q_tail, q_size, q_live, q_mutex,
                           pop_order, k_since>>
       ELSE /\ q_head' = q_next[q_head]
            /\ q_tail' = q_tail
            /\ q_size' = SizeDec(q_size)
            /\ q_live' = q_live \ {q_head}
            /\ mutex_unlock
            /\ pop_order' = Append(pop_order, q_data[q_head])
            /\ kpc' = [kpc EXCEPT ![k] = "idle"]
            /\ k_since' = [k_since EXCEPT ![k] = "-"]
            /\ UNCHANGED q_crashed
    /\ UNCHANGED push_ret
    /\ UNCHANGED notQueue
    /\ UNCHANGED <<q_next, q_data, q_items, ppc, pnode, npush, npop,
                   push_order, q_dropped>>

\* Lines 129-140: unlink the head node, size--, free it, mutex_unlock and
\* return its data.  With an empty list node is NULL and node->data is a
\* NULL dereference: the consumer stops there.
PopUnlink(k) ==
    /\ kpc[k] = "locked"
    /\ IF q_head = NULL
       THEN /\ q_crashed' = TRUE
            /\ kpc' = [kpc EXCEPT ![k] = "crashed"]
            /\ UNCHANGED <<q_head, q_tail, q_size, q_live, q_mutex,
                           pop_order, k_since>>
       ELSE /\ q_head' = q_next[q_head]
            /\ q_tail' = IF q_next[q_head] = NULL THEN NULL ELSE q_tail
            /\ q_size' = SizeDec(q_size)
            /\ q_live' = q_live \ {q_head}
            /\ mutex_unlock
            /\ pop_order' = Append(pop_order, q_data[q_head])
            /\ kpc' = [kpc EXCEPT ![k] = "idle"]
            /\ k_since' = [k_since EXCEPT ![k] = "-"]
            /\ UNCHANGED q_crashed
    /\ UNCHANGED push_ret
    /\ UNCHANGED notQueue
    /\ UNCHANGED <<q_next, q_data, q_items, ppc, pnode, npush, npop,
                   push_order, q_dropped>>

QueueNext ==
    \/ \E p \in Producers : PushAlloc(p)
    \/ \E p \in Producers : PushNoMemory(p)
    \/ \E p \in Producers : PushLock(p)
    \/ \E p \in Producers : PushLink(p)
    \/ \E p \in Producers : PushPost(p)
    \/ \E k \in Consumers : PopCall(k)
    \/ \E k \in Consumers : PopWait(k)
    \/ \E k \in Consumers : PopLock(k)
    \/ \E k \in Consumers : PopUnlink(k)

\* ---- queue_is_empty, queue_size

\* Everything of the queue but the mutex semaphore.
queueButMutex ==
    <<q_head, q_tail, q_size, q_next, q_data, q_live, q_items, ppc, pnode,
      npush, kpc, npop, q_crashed, push_order, pop_order, q_dropped, k_since,
      push_ret>>

\* Lines 143-145 and 152-154: the call is made on a queue (q is not NULL)
\* and reaches mutex_lock.
ReadCall(op) ==
    /\ rpc = "idle"
    /\ r_op' = op
    /\ rpc' = "lock"
    /\ UNCHANGED <<r_size, r_empty>>
    /\ UNCHANGED notRead
    /\ UNCHANGED queueVars

\* A mutex_lock that does not wait for the semaphore.
ReadLock_NoLock ==
    /\ rpc = "lock"
    /\ rpc' = "locked"
    /\ q_mutex' = 0
    /\ UNCHANGED <<r_op, r_size, r_empty>>
    /\ UNCHANGED notRead
    /\ UNCHANGED queueButMutex

\* Lines 146 and 155: mutex_lock.
ReadLock ==
    /\ rpc = "lock"
    /\ mutex_canLock
    /\ mutex_lock
    /\ rpc' = "locked"
    /\ UNCHANGED <<r_op, r_size, r_empty>>
    /\ UNCHANGED notRead
    /\ UNCHANGED queueButMutex

\* Line 147, bool empty = (q->size == 0), and line 156, size_t s = q->size.
ReadSize ==
    /\ rpc = "locked"
    /\ IF r_op = "size"
       THEN r_size' = q_size /\ UNCHANGED r_empty
       ELSE r_empty' = (q_size = 0) /\ UNCHANGED r_size
    /\ rpc' = "read"
    /\ UNCHANGED r_op
    /\ UNCHANGED notRead
    /\ UNCHANGED queueVars

\* Lines 148-149 and 157-158: mutex_unlock, and the value is returned; the
\* locals of the call are gone.
ReadReturn ==
    /\ rpc = "read"
    /\ mutex_unlock
    /\ rpc' = "idle"
    /\ r_op' = "none"
    /\ r_size' = 0
    /\ r_empty' = FALSE
    /\ UNCHANGED notRead
    /\ UNCHANGED queueButMutex

QueueReadNext ==
    \/ \E op \in {"size", "is_empty"} : ReadCall(op)
    \/ ReadLock
    \/ ReadSize
    \/ ReadReturn
    \/ QueueNext

\* ---- queue_create

\* What sem_init leaves in a semaphore it failed to initialise: the memory
\* comes from malloc and is indeterminate; later sem_wait and sem_post
\* calls act on whatever count it holds.
SemGarbage == 0..2

\* Lines 38-49: both allocations succeed, the list is set empty; the call
\* reaches mutex_init.
QueueCreateCall ==
    /\ qc_pc = "idle"
    /\ qc_pc' = "mutex"
    /\ q_head' = NULL
    /\ q_tail' = NULL
    /\ q_size' = 0
    /\ UNCHANGED <<qc_ret, qc_failed>>
    /\ UNCHANGED notQueueCreate
    /\ UNCHANGED <<q_next, q_data, q_live, q_mutex, q_items, ppc, pnode,
                   npush, kpc, npop, q_crashed, push_order, pop_order,
                   q_dropped, k_since, push_ret>>

\* Lines 38-39 and 45-49: malloc of the Queue or of the Mutex fails;
\* queue_create returns NULL.
QueueCreateNoMemory ==
    /\ qc_pc = "idle"
    /\ qc_pc' = "done"
    /\ qc_ret' = "NULL"
    /\ UNCHANGED qc_failed
    /\ UNCHANGED notQueueCreate
    /\ UNCHANGED queueVars

\* Lines 50-51 with mutex_init (23-26): Semaphore_init(&m->sem, 1, 1)
\* returns true.
QueueCreateMutex ==
    /\ qc_pc = "mutex"
    /\ q_mutex' = Semaphore_init(1, 1)
    /\ qc_pc' = "items"
    /\ UNCHANGED <<qc_ret, qc_failed>>
    /\ UNCHANGED notQueueCreate
    /\ UNCHANGED <<q_head, q_tail, q_size, q_next, q_data, q_live, q_items,
                   ppc, pnode, npush, kpc, npop, q_crashed, push_order,
                   pop_order, q_dropped, k_since, push_ret>>

\* The same lines, Semaphore_init returning false (adv_semaphore.c:82-84):
\* mutex_init has no result and drops it; queue_create goes on.
QueueCreateMutexFailed ==
    /\ qc_pc = "mutex"
    /\ q_mutex' \in SemGarbage
    /\ qc_failed' = qc_failed \cup {"mutex"}
    /\ qc_pc' = "items"
    /\ UNCHANGED qc_ret
    /\ UNCHANGED notQueueCreate
    /\ UNCHANGED <<q_head, q_tail, q_size, q_next, q_data, q_live, q_items,
                   ppc, pnode, npush, kpc, npop, q_crashed, push_order,
                   pop_order, q_dropped, k_since, push_ret>>

\* Lines 53-59: malloc of the item semaphore fails; the mutex and the queue
\* are released and queue_create returns NULL.
QueueCreateItemsNoMemory ==
    /\ qc_pc = "items"
    /\ qc_pc' = "done"
    /\ qc_ret' = "NULL"
    /\ UNCHANGED qc_failed
    /\ UNCHANGED notQueueCreate
    /\ UNCHANGED queueVars

\* The queue is handed to the caller: its threads may push and pop.
QueueHandedOut ==
    /\ qc_pc' = "done"
    /\ qc_ret' = "queue"
    /\ ppc' = [p \in Producers |-> "idle"]
    /\ kpc' = [k \in Consumers |-> "idle"]
    /\ UNCHANGED notQueueCreate
    /\ UNCHANGED <<q_head, q_tail, q_size, q_next, q_data, q_live, q_mutex,
                   pnode, npush, npop, q_crashed, push_order, pop_order,
                   q_dropped, k_since, push_ret>>

\* Lines 60-64: Semaphore_init(item_sem, 0, 9999999) returns true; the
\* queue is returned.
QueueCreateItems ==
    /\ qc_pc = "items"
    /\ q_items' = Semaphore_init(0, ItemsMax)
    /\ UNCHANGED qc_failed
    /\ QueueHandedOut

\* The same lines, Semaphore_init returning false: the result is not
\* looked at (line 61) and the queue is returned all the same.
QueueCreateItemsFailed ==
    /\ qc_pc = "items"
    /\ q_items' \in SemGarbage
    /\ qc_failed' = qc_failed \cup {"items"}
    /\ QueueHandedOut

QueueCreateNext ==
    \/ QueueCreateCall
    \/ QueueCreateNoMemory
    \/ QueueCreateMutex
    \/ QueueCreateMutexFailed
    \/ QueueCreateItemsNoMemory
    \/ QueueCreateItems
    \/ QueueCreateItemsFailed
    \/ QueueNext

\* ----------------------------------------------------- queue: claims

Range(f) == {f[i] : i \in 1..Len(f)}

\* C5: FIFO: the data returned by the pops, in the order the pops take
\* effect, is a prefix of the data pushed, in the order the pushes took
\* effect: same values, same order, none popped twice.
C5_Fifo ==
    /\ Len(pop_order) <= Len(push_order)
    /\ \A i \in 1..Len(pop_order) : pop_order[i] = push_order[i]
    /\ \A i, j \in 1..Len(pop_order) : pop_order[i] = pop_order[j] => i = j

\* C5 witness: every push has been popped, and the pushes took effect in
\* another order than they were called (the second call's data came first).
C5_Witness ==
    /\ Len(push_order) = MaxPushes
    /\ pop_order = push_order
    /\ pop_order[1] % 100 = 2

\* C6: size is the number of pushes in effect minus the number of pops in
\* effect, and is never negative.
C6_SizeIsPushesMinusPops ==
    /\ q_size = Len(push_order) - Len(pop_order)
    /\ q_size >= 0

\* C6 witness: pushes and a pop have taken effect and an item remains.
C6_Witness ==
    /\ Len(pop_order) >= 1
    /\ q_size = 1

\* C7: a pop returns only with the data of a node that is in the list, that
\* was pushed and that no earlier pop returned; a pop issued on an empty
\* queue does not get past its wait, and does not return, until a push has
\* taken effect after it was issued; no pop dereferences a NULL node.
C7_BlockingPop ==
    /\ [][\A k \in Consumers :
             (kpc[k] = "locked" /\ kpc'[k] = "idle") =>
                 /\ q_head # NULL
                 /\ pop_order'[Len(pop_order')] \in Range(push_order)
                 /\ pop_order'[Len(pop_order')] \notin Range(pop_order)
                 /\ k_since[k] # "none"]_vars
    /\ [](\A k \in Consumers : k_since[k] = "none" => kpc[k] = "wait")
    /\ [](~q_crashed)

\* C7 witness: a pop issued on an empty queue has got past its wait after a
\* push and is about to unlink a node.
C7_Witness ==
    \E k \in Consumers :
        /\ k_since[k] = "pushed"
        /\ kpc[k] = "locked"
        /\ q_head # NULL

\* Every queue_push and queue_pop call of the behaviour has been made and
\* has returned.
QueueAllReturned ==
    /\ npush = MaxPushes /\ \A p \in Producers : ppc[p] = "idle"
    /\ npop = MaxPushes /\ \A k \in Consumers : kpc[k] = "idle"

\* C8: every producer eventually finishes, and with as many pops as pushes
\* (no push dropped) every consumer finishes too: a state is eventually
\* reached where all calls have returned, every pushed item has been
\* returned by exactly one pop, in order, and the size is 0.
C8_AllFinish ==
    <>(/\ npush = MaxPushes /\ \A p \in Producers : ppc[p] = "idle"
       /\ q_dropped = 0 =>
              /\ QueueAllReturned
              /\ q_size = 0
              /\ q_head = NULL
              /\ Len(push_order) = MaxPushes
              /\ pop_order = push_order)

\* C8 witness: all calls returned, nothing dropped, the queue is empty.
C8_Witness ==
    /\ QueueAllReturned
    /\ q_dropped = 0
    /\ q_size = 0
    /\ q_items = 0
    /\ Len(pop_order) = MaxPushes

\* C19 as stated: a queue_push whose allocation fails drops the item,
\* leaves the list, the size and the item count as they were, and gives an
\* error back to its caller.
C19_Original ==
    [][q_dropped' = q_dropped + 1 =>
          /\ UNCHANGED <<q_head, q_tail, q_size, q_next, q_data, q_live,
                         q_items, push_order>>
          /\ push_ret' = "error"]_vars

\* C20 as stated: a failure to initialise the queue's lock semaphore or its
\* item semaphore makes queue_create return NULL; a queue is handed out
\* only with both semaphores initialised.
C20_Original ==
    /\ qc_ret = "queue" => qc_failed = {}
    /\ (qc_pc = "done" /\ qc_failed # {}) => qc_ret = "NULL"

\* The threads inside the critical section of the queue's mutex.
InQueueMutex ==
    {<<"push", p>> : p \in {x \in Producers : ppc[x] = "locked"}}
        \cup {<<"pop", k>> : k \in {x \in Consumers : kpc[x] = "locked"}}

\* C30 as stated: the item semaphore is posted by a queue_push that still
\* holds the queue's mutex: at the step that posts, the mutex is taken and
\* no other thread is inside it.
C30_Original ==
    [][\A p \in Producers :
          (ppc[p] # "idle" /\ ppc'[p] = "idle" /\ q_items' = q_items + 1) =>
              /\ q_mutex = 0
              /\ InQueueMutex = {}]_vars

\* C30 amended: queue_push acquires the mutex, appends the node at the tail
\* and increments size, releases the mutex, and only then posts the item
\* semaphore: the step that leaves the mutex appends the node, adds one to
\* size, gives the mutex back and leaves the item semaphore alone; the
\* step that posts comes after it, changes neither list nor size nor mutex,
\* and ends the call; so the posts made never outnumber the nodes appended.
C30_PushOrder ==
    /\ [][\A p \in Producers :
             (ppc[p] = "lock" /\ ppc'[p] # "lock") =>
                 /\ ppc'[p] = "locked"
                 /\ q_mutex = 1 /\ q_mutex' = 0
                 /\ UNCHANGED <<q_head, q_tail, q_size, q_next, q_items>>]_vars
    /\ [][\A p \in Producers :
             (ppc[p] = "locked" /\ ppc'[p] # "locked") =>
                 /\ ppc'[p] = "post"
                 /\ q_tail' = pnode[p]
                 /\ q_next'[pnode[p]] = NULL
                 /\ q_tail # NULL => q_next'[q_tail] = pnode[p]
                 /\ q_size' = q_size + 1
                 /\ q_mutex = 0 /\ q_mutex' = 1
                 /\ q_items' = q_items]_vars
    /\ [][\A p \in Producers :
             (ppc[p] = "post" /\ ppc'[p] # "post") =>
                 /\ ppc'[p] = "idle"
                 /\ q_items' = q_items + 1
                 /\ UNCHANGED <<q_head, q_tail, q_size, q_next, q_mutex>>]_vars
    /\ [][q_items' > q_items =>
             \E p \in Producers : ppc[p] = "post" /\ ppc'[p] = "idle"]_vars
    /\ [](q_items + Cardinality({k \in Consumers : kpc[k] \in {"lock", "locked"}})
             + Cardinality({p \in Producers : ppc[p] = "post"}) = q_size)

\* C30 witness: a queue_push has appended its node and released the mutex
\* but not yet posted, and another queue_push is inside the mutex.
C30_Witness ==
    \E p1, p2 \in Producers :
        /\ ppc[p1] = "post"
        /\ ppc[p2] = "locked"
        /\ q_mutex = 0
        /\ q_size = 1
        /\ q_items = 0

\* C21: the value a queue_size or queue_is_empty call holds was read with
\* the mutex held and is the size (is the test of the size against 0) for as
\* long as the call holds the mutex, an instant between the call and its
\* return; the call changes nothing of the queue but the mutex it takes and
\* gives back, it never waits on the item semaphore, and on an empty queue
\* with a free mutex it can go on.
ReadStep == ReadLock \/ ReadSize \/ ReadReturn

C21_SnapshotReads ==
    /\ [](rpc = "read" =>
             /\ r_op = "size" => r_size = q_size
             /\ r_op = "is_empty" => (r_empty <=> q_size = 0))
    /\ [](rpc \in {"locked", "read"} =>
             /\ q_mutex = 0
             /\ \A p \in Producers : ppc[p] # "locked"
             /\ \A k \in Consumers : kpc[k] # "locked")
    /\ [][rpc' # rpc => UNCHANGED queueButMutex]_vars
    /\ [](rpc = "lock" /\ q_mutex > 0 => ENABLED ReadLock)
    /\ [](rpc \in {"locked", "read"} => ENABLED ReadStep)

\* C21 witness: a queue_is_empty call made when an item was in the queue
\* holds the mutex and the answer true: the queue was emptied by a pop
\* in between.  A pop is suspended on the empty queue at the same time.
C21_Witness ==
    /\ rpc = "read"
    /\ r_op = "is_empty"
    /\ r_empty
    /\ Len(pop_order) >= 1
    /\ \E k \in Consumers : kpc[k] = "wait"

\* The nodes met from node n by following at most fuel next links.
RECURSIVE QueueChain(_, _)
QueueChain(n, fuel) ==
    IF n = NULL \/ fuel = 0
    THEN <<>>
    ELSE <<n>> \o QueueChain(q_next[n], fuel - 1)

\* The list from head: its nodes in order, cut after MaxPushes + 1 links
\* (one more than there are nodes, so that a cycle shows as a repetition).
QueueNodes == QueueChain(q_head, MaxPushes + 1)

\* C35: when no thread is inside the mutex, head is NULL exactly when tail
\* is NULL and exactly when size is 0; otherwise the list from head has
\* size nodes, all different, all allocated and not freed, and ends with
\* tail, whose next link is NULL.
C35_ListShape ==
    InQueueMutex = {} =>
        /\ q_head = NULL <=> q_tail = NULL
        /\ q_tail = NULL <=> q_size = 0
        /\ q_head # NULL =>
               /\ Len(QueueNodes) = q_size
               /\ Cardinality(Range(QueueNodes)) = Len(QueueNodes)
               /\ Range(QueueNodes) \subseteq q_live
               /\ QueueNodes[Len(QueueNodes)] = q_tail
               /\ q_next[q_tail] = NULL

\* C35 witness: nobody is inside the mutex, a pop has unlinked a node and
\* the list holds a node again.
C35_Witness ==
    /\ InQueueMutex = {}
    /\ Len(pop_order) >= 1
    /\ q_size >= 1
    /\ q_head = q_tail

\* The consumers that Semaphore_wait has let through and that have not
\* unlinked their node yet.
PermitsGranted ==
    Cardinality({k \in Consumers : kpc[k] \in {"lock", "locked"}})

\* C34: a consumer that is past Semaphore_wait and inside the mutex finds
\* head non-NULL and size at least 1, since the item permits available or
\* granted and not yet used never exceed the nodes in the list; no pop
\* reads node->data through a NULL head.
C34_PopFindsNode ==
    /\ \A k \in Consumers :
           kpc[k] = "locked" => q_head # NULL /\ q_size >= 1
    /\ q_items + PermitsGranted <= Len(QueueChain(q_head, MaxPushes + 1))
    /\ \A k \in Consumers : kpc[k] # "crashed"
    /\ ~q_crashed

\* C34 witness: every permit has been granted: the consumers are both past
\* their wait, one inside the mutex, with as many nodes in the list and a
\* count of 0.
C34_Witness ==
    /\ q_items = 0
    /\ PermitsGranted = NumConsumers
    /\ \E k \in Consumers : kpc[k] = "locked"
    /\ Len(QueueChain(q_head, MaxPushes + 1)) = PermitsGranted

\* The threads between a mutex_lock and the mutex_unlock that follows it,
\* in queue_push, queue_pop, queue_size or queue_is_empty.
QueueLockHolders ==
    InQueueMutex
        \cup (IF rpc \in {"locked", "read"} THEN {<<"read", 0>>} ELSE {})

\* head, tail, the next links and size.
QueueList == <<q_head, q_tail, q_next, q_size>>

\* C33: the mutex of the queue is 0 or 1 and is 0 exactly while one thread
\* is between its mutex_lock and its mutex_unlock, so two threads never are;
\* a step that changes head, tail, a next link or size is taken by the
\* thread that holds the mutex, and so is the read of size by queue_size
\* and queue_is_empty; a step that takes the mutex adds the thread to the
\* holders and a step that gives it back removes the one holder.
C33_MutualExclusion ==
    /\ [](q_mutex \in {0, 1})
    /\ [](Cardinality(QueueLockHolders) = 1 - q_mutex)
    /\ [][QueueList' # QueueList =>
              /\ q_mutex = 0
              /\ \E h \in InQueueMutex :
                     QueueLockHolders = {h} /\ h \notin QueueLockHolders']_vars
    /\ [][r_size' # r_size \/ r_empty' # r_empty =>
              QueueLockHolders = {<<"read", 0>>}]_vars
    /\ [][q_mutex' < q_mutex =>
              /\ QueueLockHolders = {}
              /\ Cardinality(QueueLockHolders') = 1]_vars
    /\ [][q_mutex' > q_mutex =>
              /\ Cardinality(QueueLockHolders) = 1
              /\ QueueLockHolders' = {}]_vars

\* C33 witness: a consumer is inside the mutex while a producer and a
\* queue_size call are both at mutex_lock.
C33_Witness ==
    /\ q_mutex = 0
    /\ \E k \in Consumers : kpc[k] = "locked"
    /\ \E p \in Producers : ppc[p] = "lock"
    /\ rpc = "lock"

\* C31: a queue_push call that was made returns, whatever the size and
\* whether or not consumers call queue_pop, wait in it or go on: only the
\* threads between mutex_lock and mutex_unlock account for the mutex, so a
\* consumer suspended on the empty queue holds nothing; a push at
\* mutex_lock can take a free mutex and a push inside the mutex can append,
\* at any size; and every push that appended posts one item permit.
PushInProgress(p) == PushLock(p) \/ PushLink(p) \/ PushPost(p)

C31_PushNeverBlocks ==
    /\ <>[](\A p \in Producers : ppc[p] = "idle")
    /\ [](q_mutex + Cardinality(InQueueMutex) = 1)
    /\ [](\A p \in Producers :
             (ppc[p] = "lock" /\ q_mutex > 0) \/ ppc[p] \in {"locked", "post"}
                 => ENABLED PushInProgress(p))

\* C31 witness: while a consumer is suspended in queue_pop with no item
\* permit, one push has appended its node and another is inside the mutex.
C31_Witness ==
    /\ \E k \in Consumers : kpc[k] = "wait"
    /\ q_items = 0
    /\ q_size >= 1
    /\ \E p \in Producers : ppc[p] = "locked"

\* The pushes that have linked their node and not yet posted its permit.
PushesInFlight == Cardinality({p \in Producers : ppc[p] = "post"})

\* No queue_push call is between its entry and its return, and no
\* queue_pop call is past its Semaphore_wait.
QueueQuiescent ==
    /\ \A p \in Producers : ppc[p] = "idle"
    /\ \A k \in Consumers : kpc[k] \in {"idle", "wait"}

\* C36: the count of the item semaphore is never above size, and is size
\* less the nodes linked but not yet posted and the permits taken but not
\* yet used; it equals size whenever no push is under way and no pop is
\* past its wait; and a consumer waiting while a node is queued that no
\* push still has to post and no other pop has a permit for finds the
\* count positive.
C36_PermitsMatchSize ==
    /\ q_items <= q_size
    /\ q_items >= 0
    /\ q_items = q_size - PushesInFlight - PermitsGranted
    /\ QueueQuiescent => q_items = q_size
    /\ \A k \in Consumers :
           (kpc[k] = "wait" /\ q_size > PushesInFlight + PermitsGranted)
               => ENABLED PopWait(k)

\* C36 witness: after a pop has returned no call is under way, and the
\* count and size are both 1.
C36_Witness ==
    /\ QueueQuiescent
    /\ Len(pop_order) >= 1
    /\ q_items = 1
    /\ q_size = 1

\* ------------------------------------------------- semaphore, in use
\* One semaphore set up by Semaphore_init(&s, 0, MaxSemOps) and shared by
\* SemThreads, each of which calls Semaphore_wait and Semaphore_post in any
\* order.

\* Semaphore_init(s, n, max) for some initial count n, no call made yet.
SemInitCounting ==
    /\ s_initial \in 0..MaxSemInitial
    /\ s_count = Semaphore_init(s_initial, MaxSemOps)
    /\ spc = [t \in SemThreads |-> "idle"]
    /\ s_ops = 0
    /\ s_posted = [t \in SemThreads |-> 0]
    /\ s_got = [t \in SemThreads |-> 0]

SemInit ==
    /\ s_initial = 0
    /\ s_count = Semaphore_init(0, MaxSemOps)
    /\ spc = [t \in SemThreads |-> "idle"]
    /\ s_ops = 0
    /\ s_posted = [t \in SemThreads |-> 0]
    /\ s_got = [t \in SemThreads |-> 0]

\* Semaphore_wait, lines 94-96: the thread enters sem_wait.
SemWaitCall(t) ==
    /\ spc[t] = "idle"
    /\ s_ops < MaxSemOps
    /\ spc' = [spc EXCEPT ![t] = "wait"]
    /\ s_ops' = s_ops + 1
    /\ UNCHANGED <<s_count, s_posted, s_got>>
    /\ UNCHANGED notSem

\* sem_wait returning whatever the count is.
SemWaitReturn_NoBlock(t) ==
    /\ spc[t] = "wait"
    /\ s_count' = Semaphore_wait(s_count)
    /\ spc' = [spc EXCEPT ![t] = "idle"]
    /\ s_got' = [s_got EXCEPT ![t] = @ + 1]
    /\ UNCHANGED <<s_ops, s_posted>>
    /\ UNCHANGED notSem

\* Semaphore_wait, line 96 to the return: sem_wait takes one unit once the
\* count is positive, and the call returns.
SemWaitReturn(t) ==
    /\ spc[t] = "wait"
    /\ Semaphore_canWait(s_count)
    /\ s_count' = Semaphore_wait(s_count)
    /\ spc' = [spc EXCEPT ![t] = "idle"]
    /\ s_got' = [s_got EXCEPT ![t] = @ + 1]
    /\ UNCHANGED <<s_ops, s_posted>>
    /\ UNCHANGED notSem

\* Variant of SemPost: two units are added, which lets two waits return.
SemPost_TwoUnits(t) ==
    /\ spc[t] = "idle"
    /\ s_ops < MaxSemOps
    /\ s_count' = Semaphore_post(Semaphore_post(s_count))
    /\ s_ops' = s_ops + 1
    /\ s_posted' = [s_posted EXCEPT ![t] = @ + 1]
    /\ UNCHANGED <<spc, s_got>>
    /\ UNCHANGED notSem

\* Semaphore_post, lines 99-102: sem_post adds one unit and returns.
SemPost(t) ==
    /\ spc[t] = "idle"
    /\ s_ops < MaxSemOps
    /\ s_count' = Semaphore_post(s_count)
    /\ s_ops' = s_ops + 1
    /\ s_posted' = [s_posted EXCEPT ![t] = @ + 1]
    /\ UNCHANGED <<spc, s_got>>
    /\ UNCHANGED notSem

SemNext ==
    \/ \E t \in SemThreads : SemWaitCall(t)
    \/ \E t \in SemThreads : SemWaitReturn(t)
    \/ \E t \in SemThreads : SemPost(t)

\* ------------------------------------------------- semaphore: claims

RECURSIVE SemSum(_, _)
SemSum(f, S) ==
    IF S = {} THEN 0
    ELSE LET x == CHOOSE y \in S : TRUE
         IN  f[x] + SemSum(f, S \ {x})

SemWaiters == {t \in SemThreads : spc[t] = "wait"}

\* C9: on a semaphore initialised with count 0, a Semaphore_wait does not
\* return while the count is 0 (it blocks); each Semaphore_post adds one
\* unit, and a wait that returns takes exactly one unit, so the waits that
\* have returned never outnumber the posts (a wait made after the post was
\* consumed blocks again); and while some thread is inside Semaphore_wait
\* and the count is positive, eventually one more wait returns.
C9_WaitPostWait ==
    /\ [][\A t \in SemThreads :
             (spc[t] = "wait" /\ spc'[t] = "idle") =>
                 /\ s_count > 0
                 /\ s_count' = s_count - 1]_vars
    /\ [][\A t \in SemThreads :
             s_posted'[t] # s_posted[t] => s_count' = s_count + 1]_vars
    /\ [](/\ s_count >= 0
          /\ SemSum(s_got, SemThreads) + s_count = SemSum(s_posted, SemThreads))
    /\ \A n \in 0..MaxSemOps :
          (SemSum(s_got, SemThreads) = n /\ s_count > 0 /\ SemWaiters # {})
              ~> (SemSum(s_got, SemThreads) > n)

\* C9 witness: a thread whose first wait was released by the other
\* thread's only post is inside a second Semaphore_wait, with the count
\* back at 0.
C9_Witness ==
    \E t \in SemThreads :
        /\ s_got[t] = 1
        /\ s_posted[t] = 0
        /\ SemSum(s_posted, SemThreads) = 1
        /\ SemSum(s_got, SemThreads) = 1
        /\ spc[t] = "wait"
        /\ s_count = 0

\* C29: on a semaphore of any initial count: the count is never negative;
\* a Semaphore_wait returns only from a positive count and takes one unit
\* of it in the same step; a Semaphore_post adds one unit and completes no
\* wait itself, so at most one wait can return on account of it; the waits
\* that have returned are the initial count plus the posts, less what is
\* left in the count, and so never more than initial count plus posts.
C29_Accounting ==
    /\ [](s_count >= 0)
    /\ [](SemSum(s_got, SemThreads) + s_count =
              s_initial + SemSum(s_posted, SemThreads))
    /\ [](SemSum(s_got, SemThreads) <=
              s_initial + SemSum(s_posted, SemThreads))
    /\ [][SemSum(s_got', SemThreads) # SemSum(s_got, SemThreads) =>
             /\ s_count > 0
             /\ s_count' = s_count - 1
             /\ SemSum(s_got', SemThreads) = SemSum(s_got, SemThreads) + 1
             /\ UNCHANGED s_posted]_vars
    /\ [][SemSum(s_posted', SemThreads) # SemSum(s_posted, SemThreads) =>
             /\ s_count' = s_count + 1
             /\ SemSum(s_posted', SemThreads) =
                    SemSum(s_posted, SemThreads) + 1
             /\ UNCHANGED <<s_got, spc>>]_vars

\* C29 witness: on a semaphore initialised with at least one unit, the
\* waits that returned have used up the initial units and one post; all
\* the threads are inside Semaphore_wait again, on a count of 0.
C29_Witness ==
    /\ s_initial >= 1
    /\ SemSum(s_posted, SemThreads) = 1
    /\ SemSum(s_got, SemThreads) = s_initial + 1
    /\ s_count = 0
    /\ SemWaiters = SemThreads

\* ------------------------------------------------------ thread handle
\* adv_thread.c, POSIX branch.  One handle, used by the one thread that owns
\* it: its calls are made one after the other, in any order.  The closure
\* given to Thread_init is not NULL.

\* sizeof(t->name).
NameSize == 64

\* A C string is represented by what distinguishes it here: a tag standing
\* for its text and its length in bytes (without the terminator).
CString(tag, len) == [tag |-> tag, len |-> len]

\* The name argument NULL.
NullName == CString("NULL", 0)

\* snprintf(t->name, sizeof(t->name), "%s", name): the first
\* sizeof(t->name) - 1 bytes of name, then the terminator.
snprintf_name(name) ==
    CString(name.tag, IF name.len < NameSize THEN name.len ELSE NameSize - 1)

\* The names given to Thread_set_name: short, as long as fits, one byte
\* too long, and NULL.
ThreadNames == {CString("a", 1), CString("b", NameSize - 1),
                CString("c", NameSize), NullName}

\* Thread_init(t, target, arg, NULL), lines 33-62.
ThreadInit ==
    /\ t_started = FALSE
    /\ t_joined = FALSE
    /\ t_killed = FALSE
    /\ t_is_alive = FALSE
    /\ t_name = snprintf_name(CString("Thread", 6))
    /\ t_native = "none"
    /\ opc = "idle"
    /\ t_calls = 0
    /\ proc_dead = FALSE
    /\ t_runs = 0
    /\ t_native_joins = 0
    /\ t_join_rets = 0
    /\ t_join_early = FALSE
    /\ t_last = [op |-> "init", ret |-> "void", native |-> FALSE]
    /\ td_state = "none"
    /\ td_frees = 0
    /\ td_freed_by = "none"
    /\ td_uaf = FALSE

\* The owner is between two calls and may make one more.
OwnerCalls ==
    /\ ~proc_dead
    /\ opc = "idle"
    /\ t_calls < MaxThreadCalls
    /\ t_calls' = t_calls + 1

\* Thread_start, lines 99-117, pthread_create returning 0.
Thread_start ==
    /\ OwnerCalls
    /\ ~t_started
    /\ t_started' = TRUE
    /\ t_native' = "created"
    /\ UNCHANGED <<t_joined, t_killed, t_is_alive, t_name, opc, proc_dead,
                   t_runs, t_native_joins, t_join_rets, t_join_early>>
    /\ t_last' = [op |-> "start", ret |-> "0", native |-> TRUE]
    /\ UNCHANGED notThread

\* Thread_start, pthread_create failing: started is set and then cleared.
Thread_start_failed ==
    /\ OwnerCalls
    /\ ~t_started
    /\ t_started' = FALSE
    /\ UNCHANGED <<t_joined, t_killed, t_is_alive, t_name, t_native, opc,
                   proc_dead, t_runs, t_native_joins, t_join_rets,
                   t_join_early>>
    /\ t_last' = [op |-> "start", ret |-> "-1", native |-> TRUE]
    /\ UNCHANGED notThread

\* Variant of Thread_start_again: the started flag is not tested and
\* pthread_create launches _thread_bootstrap once more.
Thread_start_again_Relaunches ==
    /\ OwnerCalls
    /\ t_started
    /\ t_native' = "created"
    /\ UNCHANGED <<t_started, t_joined, t_killed, t_is_alive, t_name,
                   opc, proc_dead, t_runs, t_native_joins,
                   t_join_rets, t_join_early>>
    /\ t_last' = [op |-> "start", ret |-> "0", native |-> TRUE]
    /\ UNCHANGED notThread

\* Thread_start on a started handle, line 100: returns at once.
Thread_start_again ==
    /\ OwnerCalls
    /\ t_started
    /\ UNCHANGED <<t_started, t_joined, t_killed, t_is_alive, t_name,
                   t_native, opc, proc_dead, t_runs, t_native_joins,
                   t_join_rets, t_join_early>>
    /\ t_last' = [op |-> "start", ret |-> "void", native |-> FALSE]
    /\ UNCHANGED notThread

\* _thread_bootstrap, lines 89-92: the native thread sets is_alive.
thread_bootstrap ==
    /\ ~proc_dead
    /\ t_native = "created"
    /\ t_native' = "running"
    /\ t_is_alive' = TRUE
    /\ UNCHANGED <<t_started, t_joined, t_killed, t_name, opc, t_calls,
                   proc_dead, t_runs, t_native_joins, t_join_rets,
                   t_join_early>>
    /\ UNCHANGED t_last
    /\ UNCHANGED notThread

\* _thread_routine_trampoline, lines 174-183, the target of a handle set
\* up by thread_create: td->start_routine(td->arg) is read from the block
\* and called, and when it has returned the block is freed.  A target
\* given to Thread_init directly has no block.
thread_routine_trampoline ==
    IF td_state = "none"
    THEN UNCHANGED trampVars
    ELSE /\ td_uaf' = (td_uaf \/ td_state = "freed")
         /\ td_frees' = td_frees + 1
         /\ td_state' = "freed"
         /\ td_freed_by' = "thread"

\* Thread_run, lines 69-77: t->target(t->arg) runs and returns.
Thread_run ==
    /\ ~proc_dead
    /\ t_native = "running"
    /\ t_native' = "returned"
    /\ t_runs' = t_runs + 1
    /\ thread_routine_trampoline
    /\ UNCHANGED <<t_started, t_joined, t_killed, t_is_alive, t_name, opc,
                   t_calls, proc_dead, t_native_joins, t_join_rets,
                   t_join_early>>
    /\ UNCHANGED t_last
    /\ UNCHANGED notThreadBlock

\* Variant of thread_bootstrap_exit: is_alive is not cleared.
thread_bootstrap_exit_KeepsAlive ==
    /\ ~proc_dead
    /\ t_native = "returned"
    /\ t_native' = "terminated"
    /\ UNCHANGED <<t_started, t_joined, t_killed, t_is_alive, t_name, opc,
                   t_calls, proc_dead, t_runs, t_native_joins, t_join_rets,
                   t_join_early, t_last>>
    /\ UNCHANGED notThread

\* _thread_bootstrap, lines 94-95: is_alive is cleared and the native
\* thread terminates.
thread_bootstrap_exit ==
    /\ ~proc_dead
    /\ t_native = "returned"
    /\ t_native' = "terminated"
    /\ t_is_alive' = FALSE
    /\ UNCHANGED <<t_started, t_joined, t_killed, t_name, opc, t_calls,
                   proc_dead, t_runs, t_native_joins, t_join_rets,
                   t_join_early>>
    /\ UNCHANGED t_last
    /\ UNCHANGED notThread

\* Variant of Thread_join_noop: the joined flag is not tested, so a second
\* join on a started handle goes to pthread_join again.
Thread_join_noop_Rejoins ==
    /\ OwnerCalls
    /\ ~t_started \/ t_joined
    /\ IF t_started
       THEN /\ opc' = "join"
            /\ t_native_joins' = t_native_joins + 1
            /\ t_last' = [op |-> "join", ret |-> "blocked", native |-> TRUE]
       ELSE /\ UNCHANGED <<opc, t_native_joins>>
            /\ t_last' = [op |-> "join", ret |-> "0", native |-> FALSE]
    /\ UNCHANGED <<t_started, t_joined, t_killed, t_is_alive, t_name,
                   t_native, proc_dead, t_runs, t_join_rets, t_join_early>>
    /\ UNCHANGED notThread

\* Thread_join (and thread_join, lines 218-225, which tests the same flags
\* before calling it), line 120: nothing to do.
Thread_join_noop ==
    /\ OwnerCalls
    /\ ~t_started \/ t_joined
    /\ UNCHANGED <<t_started, t_joined, t_killed, t_is_alive, t_name,
                   t_native, opc, proc_dead, t_runs, t_native_joins,
                   t_join_rets, t_join_early>>
    /\ t_last' = [op |-> "join", ret |-> "0", native |-> FALSE]
    /\ UNCHANGED notThread

\* Thread_join, lines 120-127: joined is set and pthread_join is entered.
Thread_join ==
    /\ OwnerCalls
    /\ t_started
    /\ ~t_joined
    /\ t_joined' = TRUE
    /\ opc' = "join"
    /\ t_native_joins' = t_native_joins + 1
    /\ t_join_early' = (t_native # "terminated")
    /\ UNCHANGED <<t_started, t_killed, t_is_alive, t_name, t_native,
                   proc_dead, t_runs, t_join_rets>>
    /\ t_last' = [op |-> "join", ret |-> "blocked", native |-> TRUE]
    /\ UNCHANGED notThread

\* pthread_join returning without waiting for the thread.
Thread_join_return_NoWait ==
    /\ ~proc_dead
    /\ opc = "join"
    /\ opc' = "idle"
    /\ t_join_rets' = t_join_rets + 1
    /\ UNCHANGED <<t_started, t_joined, t_killed, t_is_alive, t_name,
                   t_native, t_calls, proc_dead, t_runs, t_native_joins,
                   t_join_early>>
    /\ t_last' = [op |-> "join", ret |-> "0", native |-> TRUE]
    /\ UNCHANGED notThread

\* Thread_join, lines 127-129: pthread_join returns once the native thread
\* has terminated, and Thread_join returns.
Thread_join_return ==
    /\ ~proc_dead
    /\ opc = "join"
    /\ t_native = "terminated"
    /\ t_native' = "reaped"
    /\ opc' = "idle"
    /\ t_join_rets' = t_join_rets + 1
    /\ UNCHANGED <<t_started, t_joined, t_killed, t_is_alive, t_name,
                   t_calls, proc_dead, t_runs, t_native_joins, t_join_early>>
    /\ t_last' = [op |-> "join", ret |-> "0", native |-> TRUE]
    /\ UNCHANGED notThread

\* Thread_kill, line 132: nothing to do.
Thread_kill_noop ==
    /\ OwnerCalls
    /\ ~t_started \/ t_killed
    /\ UNCHANGED <<t_started, t_joined, t_killed, t_is_alive, t_name,
                   t_native, opc, proc_dead, t_runs, t_native_joins,
                   t_join_rets, t_join_early>>
    /\ t_last' = [op |-> "kill", ret |-> "void", native |-> FALSE]
    /\ UNCHANGED notThread

\* Thread_kill, lines 132-143, on a native thread that has not terminated:
\* pthread_kill(thread_id, SIGKILL) terminates the whole process, the
\* caller included, before line 142.
Thread_kill_running ==
    /\ OwnerCalls
    /\ t_started
    /\ ~t_killed
    /\ t_native \in {"created", "running", "returned"}
    /\ t_killed' = TRUE
    /\ proc_dead' = TRUE
    /\ UNCHANGED <<t_started, t_joined, t_is_alive, t_name, t_native, opc,
                   t_runs, t_native_joins, t_join_rets, t_join_early>>
    /\ t_last' = [op |-> "kill", ret |-> "void", native |-> TRUE]
    /\ UNCHANGED notThread

\* Thread_kill on a native thread that has terminated.  Not yet joined:
\* pthread_kill delivers nothing and line 142 clears is_alive.  Already
\* joined: thread_id no longer names a thread and pthread_kill is undefined;
\* the call either delivers nothing or brings the process down.
Thread_kill_terminated ==
    /\ OwnerCalls
    /\ t_started
    /\ ~t_killed
    /\ t_native \in {"terminated", "reaped"}
    /\ t_killed' = TRUE
    /\ \/ /\ t_is_alive' = FALSE
          /\ UNCHANGED proc_dead
       \/ /\ t_native = "reaped"
          /\ proc_dead' = TRUE
          /\ UNCHANGED t_is_alive
    /\ UNCHANGED <<t_started, t_joined, t_name, t_native, opc, t_runs,
                   t_native_joins, t_join_rets, t_join_early>>
    /\ t_last' = [op |-> "kill", ret |-> "void", native |-> TRUE]
    /\ UNCHANGED notThread

\* Variant of Thread_set_name: the started flag is not tested.
Thread_set_name_NoStartedTest(name) ==
    /\ OwnerCalls
    /\ t_name' = IF name = NullName THEN t_name ELSE snprintf_name(name)
    /\ UNCHANGED <<t_started, t_joined, t_killed, t_is_alive, t_native, opc,
                   proc_dead, t_runs, t_native_joins, t_join_rets,
                   t_join_early>>
    /\ t_last' = [op |-> "set_name", ret |-> "void", native |-> FALSE,
                  arg |-> name]
    /\ UNCHANGED notThread

\* Thread_set_name, lines 151-160: returns at once on a started handle;
\* otherwise a non-NULL name is copied with snprintf.
Thread_set_name(name) ==
    /\ OwnerCalls
    /\ t_name' = IF t_started \/ name = NullName
                 THEN t_name
                 ELSE snprintf_name(name)
    /\ UNCHANGED <<t_started, t_joined, t_killed, t_is_alive, t_native, opc,
                   proc_dead, t_runs, t_native_joins, t_join_rets,
                   t_join_early>>
    /\ t_last' = [op |-> "set_name", ret |-> "void", native |-> FALSE,
                  arg |-> name]
    /\ UNCHANGED notThread

\* Thread_get_name, lines 162-165: the stored name.
Thread_get_name == t_name

\* Thread_is_alive, lines 146-149: the value of the flag.
Thread_is_alive == t_is_alive

ThreadNext ==
    \/ Thread_start
    \/ Thread_start_failed
    \/ Thread_start_again
    \/ thread_bootstrap
    \/ Thread_run
    \/ thread_bootstrap_exit
    \/ Thread_join_noop
    \/ Thread_join
    \/ Thread_join_return
    \/ Thread_kill_noop
    \/ Thread_kill_running
    \/ Thread_kill_terminated
    \/ \E name \in ThreadNames : Thread_set_name(name)

\* ---------------------------------------------- thread_create / thread_join
\* The AdvThread interface: the handle is a fresh object (a local variable,
\* or an element of a malloc'ed array as in thread_pool_create) whose bytes are
\* indeterminate until thread_create passes it to Thread_init.

ThreadRawInit ==
    /\ t_started \in BOOLEAN
    /\ t_joined \in BOOLEAN
    /\ t_killed \in BOOLEAN
    /\ t_is_alive \in BOOLEAN
    /\ t_name = CString("?", 0)
    /\ t_native = "none"
    /\ opc = "idle"
    /\ t_calls = 0
    /\ proc_dead = FALSE
    /\ t_runs = 0
    /\ t_native_joins = 0
    /\ t_join_rets = 0
    /\ t_join_early = FALSE
    /\ t_last = [op |-> "raw", ret |-> "void", native |-> FALSE]
    /\ td_state = "none"
    /\ td_frees = 0
    /\ td_freed_by = "none"
    /\ td_uaf = FALSE

\* thread_create, lines 188-196: malloc of the trampoline block fails and
\* -1 is returned; the handle has not been touched.
thread_create_nomem ==
    /\ OwnerCalls
    /\ t_native = "none"
    /\ t_last' = [op |-> "create", ret |-> "-1", native |-> FALSE]
    /\ UNCHANGED <<t_started, t_joined, t_killed, t_is_alive, t_name,
                   t_native, opc, proc_dead, t_runs, t_native_joins,
                   t_join_rets, t_join_early>>
    /\ UNCHANGED notThread

\* thread_create, lines 188-207: the trampoline block is allocated and
\* filled, Thread_init, then Thread_start whose pthread_create succeeds.
thread_create ==
    /\ OwnerCalls
    /\ t_native = "none"
    /\ td_state' = "allocated"
    /\ td_frees' = 0
    /\ td_freed_by' = "none"
    /\ td_uaf' = FALSE
    /\ t_started' = TRUE
    /\ t_joined' = FALSE
    /\ t_killed' = FALSE
    /\ t_is_alive' = FALSE
    /\ t_name' = snprintf_name(CString("Thread", 6))
    /\ t_native' = "created"
    /\ opc' = "create"
    /\ UNCHANGED <<proc_dead, t_runs, t_native_joins, t_join_rets,
                   t_join_early, t_last>>
    /\ UNCHANGED notThreadBlock

\* Variant of thread_create_return: is_alive is tested in place of started.
thread_create_return_TestsAlive ==
    /\ ~proc_dead
    /\ opc = "create"
    /\ opc' = "idle"
    /\ IF ~t_is_alive
       THEN /\ td_frees' = td_frees + 1
            /\ td_state' = "freed"
            /\ td_freed_by' = "create"
            /\ UNCHANGED td_uaf
            /\ t_last' = [op |-> "create", ret |-> "-1", native |-> TRUE]
       ELSE /\ UNCHANGED trampVars
            /\ t_last' = [op |-> "create", ret |-> "0", native |-> TRUE]
    /\ UNCHANGED <<t_started, t_joined, t_killed, t_is_alive, t_name,
                   t_native, t_calls, proc_dead, t_runs, t_native_joins,
                   t_join_rets, t_join_early>>
    /\ UNCHANGED notThreadBlock

\* thread_create, lines 208-212, after the Thread_start that launched the
\* native thread (which may have run by now): t->started is tested; were
\* it false the block would be freed and -1 returned; 0 is returned.
thread_create_return ==
    /\ ~proc_dead
    /\ opc = "create"
    /\ opc' = "idle"
    /\ IF ~t_started
       THEN /\ td_frees' = td_frees + 1
            /\ td_state' = "freed"
            /\ td_freed_by' = "create"
            /\ UNCHANGED td_uaf
            /\ t_last' = [op |-> "create", ret |-> "-1", native |-> TRUE]
       ELSE /\ UNCHANGED trampVars
            /\ t_last' = [op |-> "create", ret |-> "0", native |-> TRUE]
    /\ UNCHANGED <<t_started, t_joined, t_killed, t_is_alive, t_name,
                   t_native, t_calls, proc_dead, t_runs, t_native_joins,
                   t_join_rets, t_join_early>>
    /\ UNCHANGED notThreadBlock

\* thread_create, lines 188-211: Thread_init, then Thread_start whose
\* pthread_create fails (started is set and cleared again); the trampoline
\* block is freed and -1 is returned.
thread_create_failed ==
    /\ OwnerCalls
    /\ t_native = "none"
    /\ td_state' = "freed"
    /\ td_frees' = 1
    /\ td_freed_by' = "create"
    /\ td_uaf' = FALSE
    /\ t_started' = FALSE
    /\ t_joined' = FALSE
    /\ t_killed' = FALSE
    /\ t_is_alive' = FALSE
    /\ t_name' = snprintf_name(CString("Thread", 6))
    /\ t_last' = [op |-> "create", ret |-> "-1", native |-> TRUE]
    /\ UNCHANGED <<t_native, opc, proc_dead, t_runs, t_native_joins,
                   t_join_rets, t_join_early>>
    /\ UNCHANGED notThreadBlock

\* pthread_join on a thread_id that was never set (the flags that led here
\* were indeterminate): undefined; the call fails and returns, or the
\* process is brought down.
Thread_join_garbage ==
    /\ ~proc_dead
    /\ opc = "join"
    /\ t_native = "none"
    /\ \/ /\ opc' = "idle"
          /\ t_join_rets' = t_join_rets + 1
          /\ t_last' = [op |-> "join", ret |-> "0", native |-> TRUE]
          /\ UNCHANGED proc_dead
       \/ /\ proc_dead' = TRUE
          /\ UNCHANGED <<opc, t_join_rets, t_last>>
    /\ UNCHANGED <<t_started, t_joined, t_killed, t_is_alive, t_name,
                   t_native, t_calls, t_runs, t_native_joins, t_join_early>>
    /\ UNCHANGED notThread

\* Thread_kill, lines 132-143, with pthread_kill on a thread_id that was
\* never set: undefined; nothing is delivered and line 142 is reached, or
\* the process is brought down.
Thread_kill_garbage ==
    /\ OwnerCalls
    /\ t_started
    /\ ~t_killed
    /\ t_native = "none"
    /\ t_killed' = TRUE
    /\ \/ /\ t_is_alive' = FALSE
          /\ UNCHANGED proc_dead
       \/ /\ proc_dead' = TRUE
          /\ UNCHANGED t_is_alive
    /\ t_last' = [op |-> "kill", ret |-> "void", native |-> TRUE]
    /\ UNCHANGED <<t_started, t_joined, t_name, t_native, opc, t_runs,
                   t_native_joins, t_join_rets, t_join_early>>
    /\ UNCHANGED notThread

ThreadCreateNext ==
    \/ thread_create_nomem
    \/ thread_create
    \/ thread_create_return
    \/ thread_create_failed
    \/ thread_bootstrap
    \/ Thread_run
    \/ thread_bootstrap_exit
    \/ Thread_join_noop
    \/ Thread_join
    \/ Thread_join_return
    \/ Thread_join_garbage
    \/ Thread_kill_noop
    \/ Thread_kill_running
    \/ Thread_kill_terminated
    \/ Thread_kill_garbage

\* -------------------------------------------------- thread handle: claims

\* C10: Thread_join on a started, not-yet-joined handle keeps its caller
\* inside pthread_join until the native thread has terminated: whenever the
\* call returns, the closure has run to completion (once) and is_alive is
\* false, and both stay so afterwards.
C10_JoinWaitsForClosure ==
    /\ [][(opc = "join" /\ opc' = "idle") =>
             /\ t_native = "terminated"
             /\ t_runs = 1
             /\ t_is_alive = FALSE
             /\ t_is_alive' = FALSE]_vars
    /\ [](opc = "join" => t_started /\ t_joined /\ t_native # "none")
    /\ [](t_join_rets > 0 =>
             /\ t_runs = 1
             /\ t_is_alive = FALSE
             /\ t_native = "reaped")

\* C10 witness: a Thread_join entered while the thread had not terminated
\* has returned.
C10_Witness ==
    /\ t_join_rets = 1
    /\ t_join_early
    /\ opc = "idle"
    /\ t_runs = 1
    /\ t_is_alive = FALSE

\* The fields of the handle, and the state of its native thread.
ThreadFields == <<t_started, t_joined, t_killed, t_is_alive, t_name>>

\* The step is a call of the named function by the owner.
OwnerCalled(op) == t_calls' = t_calls + 1 /\ t_last'.op = op

\* C11: join is idempotent.  pthread_join is performed at most once on a
\* handle; a join call on a handle that was never started or is already
\* joined returns at once (the caller is not blocked), returns 0 from
\* thread_join, and leaves every field of the handle and the native thread
\* as they were.
C11_JoinIdempotent ==
    /\ [](t_native_joins <= 1)
    /\ [][(OwnerCalled("join") /\ (~t_started \/ t_joined)) =>
             /\ UNCHANGED ThreadFields
             /\ UNCHANGED <<t_native, t_native_joins, t_join_rets, proc_dead>>
             /\ opc' = "idle"
             /\ t_last'.ret = "0"
             /\ t_last'.native = FALSE]_vars
    /\ [][(OwnerCalled("join") /\ t_started /\ ~t_joined) =>
             /\ t_joined'
             /\ t_native_joins' = 1]_vars

\* C11 witness: a second join, made after the first one has returned, has
\* returned 0 without reaching pthread_join.
C11_Witness ==
    /\ t_last = [op |-> "join", ret |-> "0", native |-> FALSE]
    /\ t_join_rets = 1
    /\ t_native_joins = 1
    /\ t_joined
    /\ opc = "idle"

\* C12 as stated: in every state in which a call can return,
\* Thread_is_alive is true exactly while the closure is running (started
\* and not yet returned); in particular it is false before start, after
\* join and after kill.
C12_Original ==
    ~proc_dead =>
        /\ Thread_is_alive <=> (t_native = "running")
        /\ ~t_started => ~Thread_is_alive
        /\ t_join_rets > 0 => ~Thread_is_alive
        /\ t_killed => ~Thread_is_alive

\* C12, amended: Thread_is_alive is true throughout the closure's run, and
\* only while the native thread is inside _thread_bootstrap between the
\* statement that sets the flag and the one that clears it (so it may still
\* be true when the closure has just returned); it is false before start,
\* after a join that returned and after a kill that returned.
C12_IsAlive ==
    ~proc_dead =>
        /\ t_native = "running" => Thread_is_alive
        /\ Thread_is_alive => t_native \in {"running", "returned"}
        /\ ~t_started => ~Thread_is_alive
        /\ t_join_rets > 0 => ~Thread_is_alive
        /\ t_killed => ~Thread_is_alive

\* C12 witness: the closure has returned, the flag is not yet cleared and
\* Thread_is_alive still answers true.
C12_Witness ==
    /\ ~proc_dead
    /\ t_native = "returned"
    /\ t_runs = 1
    /\ Thread_is_alive

\* C13 as stated: whenever thread_create has returned -1, the handle is in
\* the Created state: started and is_alive are false, no native thread
\* exists, the closure has not run, and a join on it stays out of
\* pthread_join.
C13_Original ==
    /\ (t_last.op = "create" /\ t_last.ret = "-1") =>
           /\ ~t_started
           /\ ~t_is_alive
           /\ t_native = "none"
           /\ t_runs = 0
    /\ t_native = "none" => t_native_joins = 0

\* C14 as stated, for the kills that return to their caller: Thread_kill
\* leaves is_alive false; Killed and Joined exclude each other (a killed
\* handle is never joined afterwards, a joined handle is never killed
\* afterwards); on a never-started handle kill sets no flag.
C14_Original ==
    ~proc_dead =>
        /\ t_killed => ~t_is_alive
        /\ ~(t_killed /\ t_joined)
        /\ t_killed => t_started

\* C15 as stated: a Thread_set_name call on a started handle leaves the
\* name and every other field unchanged; on a handle not yet started,
\* Thread_get_name afterwards returns the (non-NULL) name that was given.
C15_Original ==
    [][OwnerCalled("set_name") =>
          /\ UNCHANGED <<t_started, t_joined, t_killed, t_is_alive, t_native>>
          /\ t_started => Thread_get_name' = Thread_get_name
          /\ (~t_started /\ t_last'.arg # NullName) =>
                 Thread_get_name' = t_last'.arg]_vars

\* C15, amended: a Thread_set_name call on a started handle leaves the name
\* and every other field unchanged; on a handle not yet started, a NULL
\* name changes nothing and any other name is stored cut to its first 63
\* bytes, which is what Thread_get_name then returns (the name itself when
\* it is shorter than 64 bytes).
C15_SetName ==
    [][OwnerCalled("set_name") =>
          /\ UNCHANGED <<t_started, t_joined, t_killed, t_is_alive, t_native>>
          /\ IF t_started \/ t_last'.arg = NullName
             THEN Thread_get_name' = Thread_get_name
             ELSE /\ Thread_get_name'.tag = t_last'.arg.tag
                  /\ Thread_get_name'.len =
                        IF t_last'.arg.len <= 63 THEN t_last'.arg.len ELSE 63
                  /\ t_last'.arg.len <= 63 =>
                        Thread_get_name' = t_last'.arg]_vars

\* C15 witness: the last call was a Thread_set_name with a new name on a
\* started handle, and the name is still the one given to Thread_init.
C15_Witness ==
    /\ t_last.op = "set_name"
    /\ t_started
    /\ t_last.arg = CString("a", 1)
    /\ Thread_get_name = CString("Thread", 6)

\* C18: thread_pool_destroy sets the shutdown flag while it holds the pool
\* mutex and, in the same critical section, releases every worker suspended
\* on the condition; it joins only after that; it releases the list nodes
\* and the pool only when every worker has been joined and has left its
\* loop; and once the pool is released no worker takes a step or holds
\* the mutex.
C18_DestroyOrder ==
    /\ [][(~shutdown_flag /\ shutdown_flag') =>
              /\ pool_mutex = DestroyTid
              /\ cond_waiters' = {}
              /\ \A w \in cond_waiters : wpc'[w] = "lock"]_vars
    /\ [](dpc \in {"join", "joining", "done"} => shutdown_flag)
    /\ [][(dpc # "done" /\ dpc' = "done") =>
              \A w \in Workers : w_joined[w] /\ wpc[w] = "exited"]_vars
    /\ [][\A t \in Tasks :
              (node_state[t] = "queued" /\ node_state'[t] = "freed") =>
                  \A w \in Workers : w_joined[w] /\ wpc[w] = "exited"]_vars
    /\ [](PoolFreed => \A w \in Workers : wpc[w] = "exited" /\ ~w_alive[w])
    /\ [][PoolFreed =>
              /\ UNCHANGED <<wpc, wtask, cond_waiters, w_alive>>
              /\ pool_mutex' \notin {WorkerTid(w) : w \in Workers}]_vars

\* C18 witness: destroy is inside pthread_join for a worker that is still
\* running a task.
C18_Witness ==
    /\ dpc = "joining"
    /\ shutdown_flag
    /\ wpc[d_i] = "run"

\* --------------------------------------------- pool creation: claims

\* C16: thread_pool_create(0) returns NULL and starts no thread; a call
\* with n >= 1 in which no allocation and no thread_create fails returns a
\* pool with n worker handles, every one of them started (not joined) with
\* its native thread created on the worker loop, the shutdown flag false
\* and the task list empty.
C16_Create ==
    /\ num_threads = 0 =>
           /\ cr_pc \in {"idle", "null"}
           /\ \A w \in Workers : wpc[w] = "none" /\ ~w_started[w]
    /\ (cr_pc = "done" /\ \A w \in Workers : cr_result[w] = "ok") =>
           /\ num_threads = NumWorkers
           /\ \A w \in 1..num_threads :
                  /\ w_started[w]
                  /\ ~w_joined[w]
                  /\ wpc[w] \in {"boot", "lock", "locked", "wait"}
           /\ ~shutdown_flag
           /\ task_head = NULL
           /\ task_tail = NULL

\* C16 witness: a pool was returned without any failure and one of its
\* workers is already waiting for a task.
C16_Witness ==
    /\ cr_pc = "done"
    /\ num_threads = NumWorkers
    /\ \A w \in Workers : cr_result[w] = "ok" /\ w_started[w]
    /\ \E w \in Workers : wpc[w] = "wait"

\* C17 as stated: a pool returned with fewer started workers than asked
\* for is usable: thread_pool_destroy never passes a handle that did not
\* start to pthread_join and returns normally, and every task submit
\* accepted has been executed once destroy has returned.
C17_Original ==
    cr_pc = "done" =>
        /\ ~join_unset
        /\ dpc # "crashed"
        /\ dpc = "done" => \A t \in Tasks : Accepted(t) => executed[t] = 1

\* C22: the shutdown flag is false until thread_pool_destroy sets it; it
\* changes only from false to true, only in the step of destroy that holds
\* the pool mutex, and no step takes it back to false.
C22_FlagMonotonic ==
    /\ [](dpc \in {"idle", "lock", "locked"} => ~shutdown_flag)
    /\ [][shutdown_flag => shutdown_flag']_vars
    /\ [][shutdown_flag' # shutdown_flag =>
             /\ dpc = "locked"
             /\ pool_mutex = DestroyTid
             /\ dpc' = "join"
             /\ shutdown_flag']_vars

\* C22 witness: destroy has returned, submit calls were made before and
\* after the flag was set, workers ran tasks and exited: the flag is true.
C22_Witness ==
    /\ dpc = "done"
    /\ shutdown_flag
    /\ \E t \in Tasks : Accepted(t) /\ executed[t] = 1
    /\ \E t \in Tasks : after_flag[t] /\ submit_ret[t] = "false"

\* C23: a worker executing task->fn does not hold the pool mutex.
C23_NoLockAcrossTask ==
    \A w \in Workers :
        wpc[w] = "run" =>
            /\ pool_mutex # WorkerTid(w)
            /\ wtask[w] # NULL
            /\ node_state[wtask[w]] = "owned"

\* C23 witness: while one worker executes a task, another worker runs its
\* own task, having dequeued it in the meantime, and a submitter is inside
\* the mutex.
C23_Witness ==
    /\ \E w1, w2 \in Workers :
          w1 # w2 /\ wpc[w1] = "run" /\ wpc[w2] = "run"
    /\ \E c \in Clients : cpc[c] = "locked" /\ pool_mutex = ClientTid(c)

\* C24: a worker leaves its loop only from the mutex, with the flag true
\* and the list empty; a worker in the mutex that finds a task takes it and
\* runs it, whatever the flag; an exited worker implies the flag is true.
C24_ExitOnlyOnShutdownAndEmpty ==
    /\ [][\A w \in Workers :
             (wpc[w] # "exited" /\ wpc'[w] = "exited") =>
                 /\ wpc[w] = "locked"
                 /\ pool_mutex = WorkerTid(w)
                 /\ shutdown_flag
                 /\ task_head = NULL]_vars
    /\ [][\A w \in Workers :
             (wpc[w] = "locked" /\ task_head # NULL /\ wpc'[w] # wpc[w]) =>
                 /\ wpc'[w] = "run"
                 /\ wtask'[w] = task_head]_vars
    /\ [](\A w \in Workers : wpc[w] = "exited" => shutdown_flag)
    /\ [](\A w \in Workers : wpc[w] = "exited" => wtask[w] = NULL)

\* C24 witness: destroy has set the flag and waits in its join loop; a
\* worker in the mutex finds a task still queued.
C24_Witness ==
    /\ shutdown_flag
    /\ dpc = "joining"
    /\ task_head # NULL
    /\ \E w \in Workers : wpc[w] = "locked" /\ pool_mutex = WorkerTid(w)

\* C25: the task nodes workers have taken off the list are, in the order
\* they were taken, the first of the nodes appended, in the order they were
\* appended; no node is appended or taken twice, and a task a worker holds
\* or has executed is one that was taken off the list.
C25_DequeueInEnqueueOrder ==
    /\ Len(deq_order) <= Len(enq_order)
    /\ \A i \in 1..Len(deq_order) : deq_order[i] = enq_order[i]
    /\ \A i, j \in 1..Len(enq_order) : enq_order[i] = enq_order[j] => i = j
    /\ \A t \in Tasks :
          (node_state[t] = "owned" \/ executed[t] > 0) => t \in Range(deq_order)

\* C25 witness: MaxTasks tasks, submitted while workers were already taking
\* tasks off the list, have all been dequeued, by two different workers.
C25_Witness ==
    /\ Len(deq_order) = MaxTasks
    /\ MaxTasks > NumWorkers
    /\ \E t1, t2 \in Tasks :
          /\ exec_by[t1] # {} /\ exec_by[t2] # {}
          /\ exec_by[t1] # exec_by[t2]

\* C26: no lost wake-up: under fair scheduling of the threads, in a program
\* that never calls thread_pool_destroy, there is a point from which on
\* every task whose submit call returned true has been taken by a worker
\* (it is being executed or has been executed); none stays in the list.
Started(t) == node_state[t] \in {"owned", "freed"} /\ t \in Range(deq_order)

C26_NoLostWakeup ==
    <>[](\A t \in Tasks : Accepted(t) => Started(t))

\* C26 witness: destroy has not been called; every submit call was accepted,
\* its task executed, and all the workers are suspended on the condition
\* again.
C26_Witness ==
    /\ dpc = "idle"
    /\ \A t \in Tasks : Accepted(t) /\ executed[t] = 1
    /\ cond_waiters = Workers

\* C27: under fair scheduling a thread_pool_destroy call that was made
\* returns, whatever the workers were doing when it was made; every worker
\* has then exited and been joined.
C27_DestroyReturns ==
    /\ (dpc = "lock") ~> (dpc = "done")
    /\ [](dpc = "done" =>
             \A w \in Workers : wpc[w] = "exited" /\ w_joined[w])

\* C27 witness: destroy holds the mutex and is about to set the flag while
\* one worker is suspended on the condition and another is executing a task.
C27_Witness ==
    /\ dpc = "locked"
    /\ cond_waiters # {}
    /\ \E w \in Workers : wpc[w] = "run"

\* C28: a worker holds at most one task, two workers never hold the same
\* one, and a worker gives up its task only by having executed it; so the
\* tasks in execution are never more than the workers.  With tasks of one
\* time unit each, when destroy has returned after T accepted tasks on W
\* workers, at least T / W time units (rounded up) have gone by and every
\* accepted task has been executed.
InExecution == {t \in Tasks : node_state[t] = "owned"}

C28_OneTaskPerWorker ==
    /\ [](/\ Cardinality(InExecution) <= NumWorkers
          /\ InExecution = {wtask[w] : w \in Workers} \ {NULL}
          /\ \A w1, w2 \in Workers :
                (wtask[w1] # NULL /\ wtask[w1] = wtask[w2]) => w1 = w2
          /\ \A w \in Workers : wpc[w] = "run" <=> wtask[w] # NULL)
    /\ [][\A w \in Workers :
             (wtask[w] # NULL /\ wtask'[w] # wtask[w]) =>
                 /\ wtask'[w] = NULL
                 /\ executed'[wtask[w]] = executed[wtask[w]] + 1
                 /\ t_slept[wtask[w]] >= TaskTime]_vars
    /\ [](dpc = "done" =>
             /\ now * NumWorkers >=
                    Cardinality({t \in Tasks : Accepted(t)}) * TaskTime
             /\ \A t \in Tasks : Accepted(t) => executed[t] = 1)

\* C28 witness: more tasks than workers were accepted, destroy has returned
\* and no more than two rounds of time have gone by.
C28_Witness ==
    /\ dpc = "done"
    /\ \A t \in Tasks : Accepted(t)
    /\ MaxTasks > NumWorkers
    /\ now = 2 * TaskTime

\* C32: whatever Thread_start calls are made on one initialised handle, a
\* native thread is launched only by a call that finds the handle not
\* started and no native thread launched yet, a call on a started handle
\* changes nothing, the closure is never invoked twice, and a native thread
\* that got as far as returning from Thread_run invoked it exactly once.
C32_ClosureRunsOnce ==
    /\ [](t_runs <= 1)
    /\ [](t_runs = 1 => t_started)
    /\ [](t_native \in {"returned", "terminated", "reaped"} => t_runs = 1)
    /\ [](t_native \in {"none", "created", "running"} => t_runs = 0)
    /\ [][t_native' = "created" /\ t_native # "created"
              => ~t_started /\ t_started' /\ t_native = "none"]_vars
    /\ [][t_started /\ t_last'.op = "start" /\ t_calls' # t_calls
              => UNCHANGED <<t_native, t_runs, ThreadFields>>]_vars

\* C32 witness: Thread_start was called again, and returned at once, on a
\* handle whose closure has been invoked.
C32_Witness ==
    /\ t_runs = 1
    /\ t_last = [op |-> "start", ret |-> "void", native |-> FALSE]

\* The workers whose local task is node t.
Holders(t) == {w \in Workers : wtask[w] = t}

\* C37: a node is in the list exactly from its enqueue to its dequeue; from
\* then on exactly one worker holds it, until that worker frees it after
\* task->fn has returned; a node is passed to free at most once, by the
\* worker that holds it at the step where its function returns, or by
\* thread_pool_destroy for a node still in the list and never run; a freed
\* node is neither in the list nor held; and once thread_pool_destroy has
\* returned every node that was allocated has been freed.
C37_NodeOwnership ==
    /\ [](\A t \in Tasks :
             /\ free_count[t] <= 1
             /\ free_count[t] = 1 <=> node_state[t] = "freed"
             /\ node_state[t] = "queued" <=> InList(t)
             /\ node_state[t] = "owned" <=>
                    Cardinality(Holders(t)) = 1 /\ executed[t] = 0
             /\ Cardinality(Holders(t)) <= 1
             /\ node_state[t] = "freed" => Holders(t) = {} /\ ~InList(t)
             /\ node_state[t] = "none" => ~Accepted(t)
             /\ PoolFreed /\ Accepted(t) => free_count[t] = 1)
    /\ [][\A t \in Tasks : free_count'[t] # free_count[t] =>
              \/ /\ node_state[t] = "owned"
                 /\ \E w \in Holders(t) : wpc[w] = "run" /\ wpc'[w] # "run"
                 /\ executed[t] = 0 /\ executed'[t] = 1
              \/ /\ node_state[t] = "queued"
                 /\ dpc = "join" /\ dpc' = "done"
                 /\ executed[t] = 0
                 /\ \A w \in Workers : w_joined[w]]_vars
    /\ [][\A t \in Tasks : node_state[t] = "owned" =>
              \A w \in Workers : wtask'[w] = t => wtask[w] = t]_vars

\* C37 witness: one node has been freed by the worker that ran it, another
\* is held by a worker running it, a third is still in the list.
C37_Witness ==
    /\ \E t \in Tasks : free_count[t] = 1 /\ executed[t] = 1
    /\ \E t \in Tasks : node_state[t] = "owned" /\ Holders(t) # {}
    /\ \E t \in Tasks : InList(t)

\* The pool with, besides, submit calls that pass a NULL pool or fn.
PoolSubmitNext ==
    \/ \E c \in Clients : SubmitNullArgument(c)
    \/ PoolNext

\* What a submit call that is refused must leave alone: the list, the flag,
\* the nodes, the workers waiting on the condition and the workers' positions.
SubmitLeavesAlone ==
    <<task_head, task_tail, task_next, shutdown_flag, node_state,
      cond_waiters, wpc, wtask, enq_order, deq_order, executed, free_count>>

\* C38: the step at which a thread_pool_submit call returns false (NULL
\* argument, flag set, or malloc failed) changes neither the list, its head
\* and tail, the flag nor any node, wakes no worker, and leaves the mutex
\* not held by the caller; the task of such a call never gets a node, is
\* never in the list and is never run.
C38_RejectedSubmitNoEffect ==
    /\ [][(\E t \in Tasks : submit_ret[t] = "none" /\ submit_ret'[t] = "false")
              => /\ UNCHANGED SubmitLeavesAlone
                 /\ pool_mutex' = 0 \/ pool_mutex' = pool_mutex]_vars
    /\ [](\A c \in Clients : cpc[c] = "idle" => pool_mutex # ClientTid(c))
    /\ [](\A t \in Tasks : submit_ret[t] = "false" =>
             /\ node_state[t] = "none"
             /\ ~InList(t)
             /\ t \notin Range(enq_order)
             /\ executed[t] = 0)

\* C38 witness: three calls have returned false, one that found the flag
\* set and two that did not (NULL argument or failed malloc), and the
\* mutex is free.
C38_Witness ==
    /\ \E t \in Tasks : submit_ret[t] = "false" /\ after_flag[t]
    /\ Cardinality({t \in Tasks :
                       submit_ret[t] = "false" /\ ~after_flag[t]}) = 2
    /\ pool_mutex = 0
    /\ \A c \in Clients : cpc[c] = "idle"

\* The pool whose tasks may submit tasks to it.
PoolReentrantNext ==
    \/ \E w \in Workers : WorkerSubmitCall(w)
    \/ \E w \in Workers : WorkerSubmitLock(w)
    \/ \E w \in Workers : WorkerSubmitRejected(w)
    \/ \E w \in Workers : WorkerSubmitNoMemory(w)
    \/ \E w \in Workers : WorkerSubmitAccepted(w)
    \/ PoolNext

C40_TrampolineFreedOnce ==
    /\ [](td_frees <= 1)
    /\ [](~td_uaf)
    /\ [](td_state = "freed" <=> td_frees = 1)
    /\ [](td_freed_by # "none" <=> td_state = "freed")
    /\ [](td_freed_by = "thread" =>
             t_runs = 1 /\ t_native \in {"returned", "terminated", "reaped"})
    /\ [](td_freed_by = "create" => t_native = "none" /\ t_runs = 0)
    /\ [](t_native \in {"created", "running"} => td_state = "allocated")
    /\ [](t_native \in {"returned", "terminated", "reaped"} =>
             td_state = "freed" /\ td_freed_by = "thread")
    /\ [][(t_calls' = t_calls /\ opc = "create" /\ opc' = "idle") =>
              t_last'.ret = "0" /\ UNCHANGED trampVars]_vars
    /\ [][(t_calls' # t_calls /\ t_last' # t_last /\ t_last'.op = "create"
               /\ t_last'.native) =>
              /\ t_last'.ret = "-1"
              /\ td_state' = "freed" /\ td_frees' = 1
              /\ td_freed_by' = "create"]_vars

\* C40 witness: the routine has returned and the new thread has freed the
\* block before thread_create has tested t->started.
C40_Witness ==
    /\ opc = "create"
    /\ td_state = "freed"
    /\ td_freed_by = "thread"
    /\ t_native = "terminated"

\* ------------------------------------------------------ specifications

Init == PoolInit /\ PoolCreated /\ QueueInit /\ SemInit /\ ThreadInit

InitPoolBlank == PoolBlank /\ QueueInit /\ SemInit /\ ThreadInit

InitQueueBlank == PoolInit /\ PoolCreated /\ QueueBlank /\ SemInit /\ ThreadInit

\* The queue with a thread that reads its size while others push and pop.
SpecQueueRead == Init /\ [][QueueReadNext]_vars

\* queue_create with its failures, then the life of the queue.
SpecQueueCreate == InitQueueBlank /\ [][QueueCreateNext]_vars

SpecPoolCreate == InitPoolBlank /\ [][PoolCreateNext]_vars

\* thread_pool_create with its failures, then the life of the pool.
PoolPartialNext == PoolCreateNext \/ PoolNext \/ DestroyJoinUnset

SpecPoolPartial == InitPoolBlank /\ [][PoolPartialNext]_vars

SpecPoolSubmit == Init /\ [][PoolSubmitNext]_vars

SpecPool  == Init /\ [][PoolNext]_vars

\* The pool of thread_pool_test.c, with time: tasks that sleep are submitted
\* and then the pool is destroyed.
SpecPoolTimed == Init /\ [][PoolTimedNext]_vars

\* The threads are native threads: one that can take a step eventually
\* takes it.  That pthread_cond_wait returns without a signal is possible
\* but nothing the scheduler owes; whether and when thread_pool_submit and
\* thread_pool_destroy are called is up to the program, but a call that was
\* made goes on.
WorkerStep(w) ==
    \/ WorkerBoot(w) \/ WorkerLock(w) \/ WorkerWait(w) \/ WorkerExit(w)
    \/ WorkerDequeue(w) \/ WorkerRun(w)

SubmitStep(c) == SubmitRejected(c) \/ SubmitNoMemory(c) \/ SubmitAccepted(c)

DestroyStep ==
    \/ DestroyLock \/ DestroyShutdown \/ DestroyJoin \/ DestroyJoined
    \/ DestroyFree

\* A thread at pthread_mutex_lock competes for the mutex each time it is
\* released; fair scheduling means it is not passed over for ever (strong
\* fairness of the acquisition).
FairSpecPool ==
    /\ SpecPool
    /\ \A w \in Workers : WF_vars(WorkerStep(w)) /\ SF_vars(WorkerLock(w))
    /\ \A c \in Clients : WF_vars(SubmitStep(c))
    /\ WF_vars(DestroyStep)
    /\ SF_vars(DestroyLock)

\* The same scheduling for a pool whose tasks submit tasks: the submit call
\* of a running task goes on, and is not passed over for ever at the mutex.
WorkerSubmitStep(w) ==
    \/ WorkerSubmitLock(w) \/ WorkerSubmitRejected(w)
    \/ WorkerSubmitNoMemory(w) \/ WorkerSubmitAccepted(w)

SpecPoolReentrant == Init /\ [][PoolReentrantNext]_vars

FairSpecPoolReentrant ==
    /\ SpecPoolReentrant
    /\ \A w \in Workers : WF_vars(WorkerStep(w)) /\ SF_vars(WorkerLock(w))
    /\ \A w \in Workers :
           WF_vars(WorkerSubmitStep(w)) /\ SF_vars(WorkerSubmitLock(w))
    /\ \A c \in Clients : WF_vars(SubmitStep(c))
    /\ WF_vars(DestroyStep)
    /\ SF_vars(DestroyLock)

\* The pool of a program that never calls thread_pool_destroy: the flag
\* stays false, so no submit call is turned away for it and no worker
\* leaves its loop.
PoolNoDestroyNext ==
    \/ \E c \in Clients : SubmitLock(c)
    \/ \E c \in Clients : SubmitNoMemory(c)
    \/ \E c \in Clients : SubmitAccepted(c)
    \/ \E w \in Workers : WorkerBoot(w)
    \/ \E w \in Workers : WorkerLock(w)
    \/ \E w \in Workers : WorkerWait(w)
    \/ \E w \in Workers : WorkerSpuriousWake(w)
    \/ \E w \in Workers : WorkerDequeue(w)
    \/ \E w \in Workers : WorkerRun(w)

SpecPoolNoDestroy == Init /\ [][PoolNoDestroyNext]_vars

FairSpecPoolNoDestroy ==
    /\ SpecPoolNoDestroy
    /\ \A w \in Workers : WF_vars(WorkerStep(w))
    /\ \A c \in Clients : WF_vars(SubmitStep(c))
SpecQueue == Init /\ [][QueueNext]_vars

\* Every thread that can take a step eventually takes one (the threads are
\* native, preemptively scheduled threads).
ProducerStep(p) ==
    PushAlloc(p) \/ PushNoMemory(p) \/ PushLock(p) \/ PushLink(p) \/ PushPost(p)

ConsumerStep(k) ==
    PopCall(k) \/ PopWait(k) \/ PopLock(k) \/ PopUnlink(k)

FairSpecQueue ==
    /\ SpecQueue
    /\ \A p \in Producers : WF_vars(ProducerStep(p))
    /\ \A k \in Consumers : WF_vars(ConsumerStep(k))

\* Fairness for the pushers only: a queue_push call that was made goes on,
\* and a thread inside the mutex leaves it; nothing is owed by the
\* consumers otherwise (they may never call queue_pop, or stay in it).
FairSpecQueuePush ==
    /\ SpecQueue
    /\ \A p \in Producers : WF_vars(PushInProgress(p))
    /\ \A k \in Consumers : WF_vars(PopUnlink(k))

SpecSem == Init /\ [][SemNext]_vars

\* The semaphore initialised with any count from 0 to MaxSemInitial.
InitSemCounting ==
    PoolInit /\ PoolCreated /\ QueueInit /\ SemInitCounting /\ ThreadInit

SpecSemCounting == InitSemCounting /\ [][SemNext]_vars

SpecThread == Init /\ [][ThreadNext]_vars

InitThreadRaw ==
    PoolInit /\ PoolCreated /\ QueueInit /\ SemInit /\ ThreadRawInit

SpecThreadCreate == InitThreadRaw /\ [][ThreadCreateNext]_vars

\* A thread suspended in sem_wait is resumed once the count is positive.
FairSpecSem ==
    /\ SpecSem
    /\ \A t \in SemThreads : WF_vars(SemWaitReturn(t))

=============================================================================
